---- MODULE Spec2Model ----
(***************************************************************************)
(* Reconcilers of provider-bitbucket-server: the AccessKey and the Webhook *)
(* external clients (Observe / Create / Update / Delete), the REST client  *)
(* they call, and the Bitbucket server the REST client talks to.           *)
(*                                                                         *)
(* Strings that the code parses or formats (the external-name annotation)  *)
(* are sequences of one-character strings.  Errors are sequences of        *)
(* messages, outermost wrapper first; the empty sequence is nil.           *)
(***************************************************************************)
EXTENDS Integers, Sequences, FiniteSets, TLC

VARIABLES cr, remote, nextID, last, prev, host

vars == <<cr, remote, nextID, last, prev, host>>

(***************************************************************************)
(* Bounds of the model.                                                    *)
(***************************************************************************)
\* number of IDs the server can hand out in one run
MaxCreates == 2
\* failing remote or generator calls the host loop suffers before they stop
MaxFailures == 2
\* longest event list of a webhook
MaxEvents == 2

\* the first ID the server hands out; 9 makes the run cross from one
\* decimal digit to two
FirstID == 9
LastID == FirstID + MaxCreates - 1
RemoteIDs == FirstID..LastID

(***************************************************************************)
(* strconv / fmt                                                           *)
(***************************************************************************)
DigitChars == <<"0", "1", "2", "3", "4", "5", "6", "7", "8", "9">>

IsDigit(c) == \E d \in 1..10 : DigitChars[d] = c

DigitVal(c) == (CHOOSE d \in 1..10 : DigitChars[d] = c) - 1

RECURSIVE FormatNat(_)
FormatNat(n) ==
    IF n < 10 THEN <<DigitChars[n + 1]>>
    ELSE FormatNat(n \div 10) \o <<DigitChars[(n % 10) + 1]>>

\* Sprint keeping only the last digit
SprintLastDigit(n) == <<DigitChars[(n % 10) + 1]>>

\* fmt.Sprint of an int
Sprint(n) == IF n < 0 THEN <<"-">> \o FormatNat(0 - n) ELSE FormatNat(n)

RECURSIVE ParseDigits(_, _)
ParseDigits(s, acc) ==
    IF s = <<>> THEN [ok |-> TRUE, val |-> acc]
    ELSE IF ~IsDigit(Head(s)) THEN [ok |-> FALSE, val |-> 0]
    ELSE ParseDigits(Tail(s), acc * 10 + DigitVal(Head(s)))

\* strconv.Atoi: an optional sign, then at least one decimal digit; the
\* value is 0 when the syntax is wrong
Atoi(s) ==
    IF s = <<>> THEN [ok |-> FALSE, val |-> 0]
    ELSE LET signed == Head(s) \in {"-", "+"}
             body   == IF signed THEN Tail(s) ELSE s
             p      == ParseDigits(body, 0)
         IN  IF body = <<>> \/ ~p.ok THEN [ok |-> FALSE, val |-> 0]
             ELSE IF Head(s) = "-" THEN [ok |-> TRUE, val |-> 0 - p.val]
             ELSE p

(***************************************************************************)
(* errors                                                                  *)
(***************************************************************************)
Nil == <<>>

ErrNotFound == <<"not found">>

\* errors.Wrap(err, msg) and fmt.Errorf("msg: %w", err)
Wrap(err, msg) == <<msg>> \o err

\* ErrorsIs comparing err itself only, blind to what err wraps
ErrorsIsShallow(err, target) == err = target

\* errors.Is: target is err or one of the errors err wraps
ErrorsIs(err, target) ==
    \E k \in 1..Len(err) : SubSeq(err, k, Len(err)) = target

(***************************************************************************)
(* The data of the two kinds                                               *)
(***************************************************************************)
Kinds == {"AccessKey", "Webhook"}

PermissionRepoWrite == "REPO_WRITE"
PermissionRepoRead == "REPO_READ"
Permissions == {PermissionRepoRead, PermissionRepoWrite}

\* the Ready condition of a managed resource; "None" before any was set
Conditions == {"None", "Creating", "Available", "Deleting"}

Events == {"repo:modified", "repo:refs_changed"}

\* the rank of an event name in the byte order of Go's string comparison
EventRank(e) == IF e = "repo:modified" THEN 1 ELSE 2

EventLists == UNION {[1..n -> Events] : n \in 0..MaxEvents}

\* the zero value of bitbucket.AccessKey
ZeroAccessKey == [Key |-> "", Label |-> "", ID |-> 0, Permission |-> ""]

\* the zero value of bitbucket.Webhook
ZeroWebhook ==
    [ID |-> 0, Name |-> "", Configuration |-> [Secret |-> ""],
     Events |-> <<>>, URL |-> ""]

\* no remote resource under an ID
Absent == [absent |-> TRUE]

\* a nil *PublicKey in the status of an access key
NoKey == [nil |-> TRUE]

\* cr.Repo(): the repository coordinate of a managed resource
Repo(c) == [ProjectKey |-> c.spec.ProjectKey, Repo |-> c.spec.RepoName]

\* cr.AccessKey(): the API object of an AccessKey managed resource
AccessKeyOf(c) ==
    [Key        |-> c.spec.PublicKey.Key,
     Label      |-> c.spec.PublicKey.Label,
     ID         |-> 0,
     Permission |-> c.spec.PublicKey.Permission]

\* cr.Webhook(): the API object of a Webhook managed resource; the event
\* list is copied element by element and the ID is left zero
WebhookOf(c) ==
    [ID            |-> 0,
     Name          |-> c.spec.Webhook.Name,
     Configuration |-> c.spec.Webhook.Configuration,
     Events        |-> [k \in 1..Len(c.spec.Webhook.Events) |->
                            c.spec.Webhook.Events[k]],
     URL           |-> c.spec.Webhook.URL]

(***************************************************************************)
(* The REST client and the server behind it.  An exchange has an outcome:  *)
(*   "ok"      the server handles the request and the answer arrives       *)
(*   "err500"  the server refuses the request with status 500              *)
(*   "neterr"  the request never reaches the server                        *)
(*   "lost"    the server handles the request and the answer is lost       *)
(***************************************************************************)
GetOutcomes == {"ok", "err500", "neterr"}
\* of a create, update or delete; one that never reaches the server is left
\* out: the client sees what it sees of "lost", the server what it sees of
\* "err500"
Outcomes == {"ok", "err500", "lost"}

StatusOK == 200
StatusBadRequest == 400
StatusNotFound == 404
StatusInternalServerError == 500
\* no HTTP answer at all: HTTPClient.Do returned an error
NoStatus == 0

Present(store, id) == id \in DOMAIN store /\ store[id] # Absent

\* the status the server answers an exchange about a resource with
ServerStatus(o, present) ==
    CASE o = "ok"     -> IF present THEN StatusOK ELSE StatusNotFound
      [] o = "err500" -> StatusInternalServerError
      [] OTHER        -> NoStatus

\* whether the server carried the request out
Handled(o) == o \in {"ok", "lost"}

\* sendRequest reporting every refusal of the server as not found
SendRequestAllNotFound(status) ==
    IF status = NoStatus THEN <<"transport error">>
    ELSE IF status < StatusOK \/ status >= StatusBadRequest
         THEN IF status >= StatusBadRequest THEN ErrNotFound
              ELSE <<"HTTP status 500">>
         ELSE Nil

\* Client.sendRequest: the error for a status
SendRequest(status) ==
    IF status = NoStatus THEN <<"transport error">>
    ELSE IF status < StatusOK \/ status >= StatusBadRequest
         THEN IF status = StatusNotFound THEN ErrNotFound
              ELSE <<"HTTP status 500">>
         ELSE Nil

(***************************************************************************)
(* Access keys over REST.  The server keeps a KeyDescription per ID.       *)
(***************************************************************************)
\* the KeyDescription the server keeps for an uploaded key (UploadKeyPayload
\* plus the ID it assigned)
KeyDescription(id, key) ==
    [key        |-> [id |-> id, text |-> key.Key, label |-> key.Label],
     permission |-> key.Permission]

\* the bitbucket.AccessKey the client builds from a KeyDescription payload
FromKeyDescription(payload) ==
    [Key        |-> payload.key.text,
     ID         |-> payload.key.id,
     Label      |-> payload.key.label,
     Permission |-> payload.permission]

\* Client.GetAccessKey
GetAccessKey(store, id, o) ==
    LET status == ServerStatus(o, Present(store, id))
        err    == SendRequest(status)
    IN  IF err # Nil
        THEN [err |-> Wrap(err, "GetAccessKey"), val |-> ZeroAccessKey,
              status |-> status, store |-> store]
        ELSE [err |-> Nil, val |-> FromKeyDescription(store[id]),
              status |-> status, store |-> store]

\* CreateAccessKey against a server that answers an upload of a key text it
\* already holds with the key it holds
CreateAccessKeyDeduplicating(store, next, key, o) ==
    LET status == ServerStatus(o, TRUE)
        err    == SendRequest(status)
        same   == {id \in DOMAIN store :
                     store[id] # Absent /\ store[id].key.text = key.Key}
        fresh  == same = {}
        made   == IF fresh THEN KeyDescription(next, key)
                  ELSE store[CHOOSE id \in same : TRUE]
        after  == IF Handled(o) /\ fresh THEN [store EXCEPT ![next] = made]
                  ELSE store
    IN  [err    |-> err,
         val    |-> IF err # Nil THEN ZeroAccessKey ELSE FromKeyDescription(made),
         status |-> status,
         store  |-> after,
         next   |-> IF Handled(o) /\ fresh THEN next + 1 ELSE next]

\* Client.CreateAccessKey; next is the ID the server assigns
CreateAccessKey(store, next, key, o) ==
    LET status == ServerStatus(o, TRUE)
        err    == SendRequest(status)
        made   == KeyDescription(next, key)
        after  == IF Handled(o) THEN [store EXCEPT ![next] = made] ELSE store
    IN  [err    |-> err,
         val    |-> IF err # Nil THEN ZeroAccessKey ELSE FromKeyDescription(made),
         status |-> status,
         store  |-> after,
         next   |-> IF Handled(o) THEN next + 1 ELSE next]

\* Client.UpdateAccessKeyPermission
UpdateAccessKeyPermission(store, id, permission, o) ==
    LET present == Present(store, id)
        status  == ServerStatus(o, present)
    IN  [err    |-> SendRequest(status),
         status |-> status,
         store  |-> IF Handled(o) /\ present
                    THEN [store EXCEPT ![id].permission = permission]
                    ELSE store]

\* Client.DeleteAccessKey
DeleteAccessKey(store, id, o) ==
    LET present == Present(store, id)
        status  == ServerStatus(o, present)
    IN  [err    |-> SendRequest(status),
         status |-> status,
         store  |-> IF Handled(o) /\ present
                    THEN [store EXCEPT ![id] = Absent]
                    ELSE store]

(***************************************************************************)
(* Webhooks over REST.  The server keeps the webhook JSON object per ID.   *)
(***************************************************************************)
\* Client.GetWebhook
GetWebhook(store, id, o) ==
    LET status == ServerStatus(o, Present(store, id))
        err    == SendRequest(status)
    IN  IF err # Nil
        THEN [err |-> Wrap(err, "GetWebhook"), val |-> ZeroWebhook,
              status |-> status, store |-> store]
        ELSE [err |-> Nil, val |-> store[id],
              status |-> status, store |-> store]

\* Client.CreateWebhook; next is the ID the server assigns
CreateWebhook(store, next, hook, o) ==
    LET status == ServerStatus(o, TRUE)
        err    == SendRequest(status)
        made   == [hook EXCEPT !.ID = next]
        after  == IF Handled(o) THEN [store EXCEPT ![next] = made] ELSE store
    IN  [err    |-> err,
         val    |-> IF err # Nil THEN ZeroWebhook ELSE made,
         status |-> status,
         store  |-> after,
         next   |-> IF Handled(o) THEN next + 1 ELSE next]

\* Client.UpdateWebhook
UpdateWebhook(store, id, hook, o) ==
    LET present == Present(store, id)
        status  == ServerStatus(o, present)
        err     == SendRequest(status)
        made    == [hook EXCEPT !.ID = id]
    IN  [err    |-> err,
         val    |-> IF err # Nil THEN ZeroWebhook ELSE made,
         status |-> status,
         store  |-> IF Handled(o) /\ present
                    THEN [store EXCEPT ![id] = made]
                    ELSE store]

\* Client.DeleteWebhook
DeleteWebhook(store, id, o) ==
    LET present == Present(store, id)
        status  == ServerStatus(o, present)
    IN  [err    |-> SendRequest(status),
         status |-> status,
         store  |-> IF Handled(o) /\ present
                    THEN [store EXCEPT ![id] = Absent]
                    ELSE store]

(***************************************************************************)
(* What one call of a reconciler entry point leaves behind.                *)
(*   err, exists, upToDate, conn, nameAssigned: what it returned           *)
(*   calls: the remote calls it issued, in order                           *)
(*   gens:  how often it invoked the secret generator                      *)
(*   before: the managed resource as it was when the call began            *)
(*   compared: the two arguments of the webhook diff as they are after it  *)
(***************************************************************************)
\* managed.ConnectionDetails with no entry
NoDetails == <<>>

\* the zero managed.ExternalObservation / ExternalCreation / ExternalUpdate
Result(op, i, c) ==
    [op |-> op, inst |-> i, err |-> Nil, exists |-> FALSE, upToDate |-> FALSE,
     conn |-> NoDetails, nameAssigned |-> FALSE, calls |-> <<>>, gens |-> 0,
     before |-> c, compared |-> <<>>]

\* what is remembered of the call before the latest one
Summary(res) ==
    [op |-> res.op, failed |-> res.err # Nil, called |-> res.calls # <<>>]

\* one remote call: the method, the ID it addresses (0 for a create), what
\* it sends, the status that came back and the ID of the resource in the
\* answer (0 when the answer carries none)
Call(method, repo, id, body, status, ret) ==
    [method |-> method, repo |-> repo, id |-> id, body |-> body,
     status |-> status, ret |-> ret]

NoBody == [none |-> TRUE]

errGetFailedKey == "cannot get access key from bitbucket API"
errDeleteFailedKey == "cannot delete access key from bitbucket API"
errCreateFailedKey == "cannot create access key with bitbucket API"
errUpdateFailedKey == "cannot update access permission key with bitbucket API"

\* the status of an access key after a successful get or create
\* KeyObservation without the label
KeyObservationNoLabel(key) ==
    [ID  |-> key.ID,
     Key |-> [Key |-> key.Key, Label |-> "",
              Permission |-> key.Permission]]

KeyObservation(key) ==
    [ID  |-> key.ID,
     Key |-> [Key |-> key.Key, Label |-> key.Label,
              Permission |-> key.Permission]]

(***************************************************************************)
(* The AccessKey reconciler (external in package accesskey).  Each         *)
(* operator gives the managed resource, the server's keys and the next ID  *)
(* after the call, and the call's result.                                  *)
(***************************************************************************)
\* KeyUpToDate comparing the whole key, ID included
KeyUpToDateWholeKey(key, c) == key = AccessKeyOf(c)

\* KeyUpToDate with the comparison turned around
KeyUpToDateInverted(key, c) == key.Permission # c.spec.PublicKey.Permission

\* whether an observed key needs no Update
KeyUpToDate(key, c) == key.Permission = c.spec.PublicKey.Permission

\* KeyIdentity with the parse error dropped, as Update and Delete drop it
KeyIdentityUnchecked(c) == [ok |-> TRUE, val |-> Atoi(c.externalName).val]

\* the identity Observe reads off the external name: none when the name is
\* empty or is no number
KeyIdentity(c) ==
    IF c.externalName = <<>> THEN [ok |-> FALSE, val |-> 0]
    ELSE Atoi(c.externalName)

\* KeyObserve setting the condition before it looks at the error of the get
KeyObserveEagerAvailable(i, c, store, next, o) ==
    LET res  == Result("Observe", i, c)
        same == [cr |-> c, store |-> store, next |-> next, res |-> res]
        a    == KeyIdentity(c)
        g    == GetAccessKey(store, a.val, o)
        call == Call("GetAccessKey", Repo(c), a.val, NoBody, g.status, g.val.ID)
        seen == [same EXCEPT !.cr.cond = "Available"]
    IN  IF ~a.ok THEN same
        ELSE IF g.err # Nil
             THEN IF ErrorsIs(g.err, ErrNotFound)
                  THEN [seen EXCEPT !.res.calls = <<call>>]
                  ELSE [seen EXCEPT !.res.calls = <<call>>,
                                    !.res.err = Wrap(g.err, errGetFailedKey)]
        ELSE [seen EXCEPT
                !.cr.atProvider = KeyObservation(g.val),
                !.res.calls = <<call>>,
                !.res.exists = TRUE,
                !.res.upToDate = KeyUpToDate(g.val, c)]

\* external.Observe
KeyObserve(i, c, store, next, o) ==
    LET res  == Result("Observe", i, c)
        same == [cr |-> c, store |-> store, next |-> next, res |-> res]
        a    == KeyIdentity(c)
        g    == GetAccessKey(store, a.val, o)
        call == Call("GetAccessKey", Repo(c), a.val, NoBody, g.status, g.val.ID)
    IN  IF ~a.ok THEN same
        ELSE IF g.err # Nil
             THEN IF ErrorsIs(g.err, ErrNotFound)
                  THEN [same EXCEPT !.res.calls = <<call>>]
                  ELSE [same EXCEPT !.res.calls = <<call>>,
                                    !.res.err = Wrap(g.err, errGetFailedKey)]
        ELSE [same EXCEPT
                !.cr.cond = "Available",
                !.cr.atProvider = KeyObservation(g.val),
                !.res.calls = <<call>>,
                !.res.exists = TRUE,
                !.res.upToDate = KeyUpToDate(g.val, c)]

\* KeyCreateRemote recording the answer before it looks at the error
KeyCreateRemoteEager(c, store, next, o) ==
    LET r    == CreateAccessKey(store, next, AccessKeyOf(c), o)
        call == Call("CreateAccessKey", Repo(c), 0, AccessKeyOf(c), r.status,
                     r.val.ID)
    IN  [err   |-> r.err,
         call  |-> call,
         store |-> r.store,
         next  |-> r.next,
         cr    |-> [c EXCEPT !.externalName = Sprint(r.val.ID),
                             !.cond = "Available",
                             !.atProvider = KeyObservation(r.val)]]

\* external.create: the remote create and what it records on success
KeyCreateRemote(c, store, next, o) ==
    LET r    == CreateAccessKey(store, next, AccessKeyOf(c), o)
        call == Call("CreateAccessKey", Repo(c), 0, AccessKeyOf(c), r.status,
                     r.val.ID)
    IN  [err   |-> r.err,
         call  |-> call,
         store |-> r.store,
         next  |-> r.next,
         cr    |-> IF r.err # Nil THEN c
                   ELSE [c EXCEPT !.externalName = Sprint(r.val.ID),
                                  !.cond = "Available",
                                  !.atProvider = KeyObservation(r.val)]]

\* the connection details of a Create: the generated private key when the
\* key pair was generated (need), nothing otherwise
KeyConnectionDetails(need, gen) ==
    IF need THEN ("ssh-privatekey" :> gen.private) ELSE NoDetails

\* KeyCreate handing the managed resource back as it came when the remote
\* create failed
KeyCreateReverting(i, c, store, next, o, gen) ==
    LET res  == Result("Create", i, c)
        c1   == [c EXCEPT !.cond = "Creating"]
        need == c1.spec.PublicKey.Key = ""
        c2   == IF need THEN [c1 EXCEPT !.spec.PublicKey.Key = gen.public]
                ELSE c1
        conn == KeyConnectionDetails(need, gen)
        gens == IF need THEN 1 ELSE 0
        r    == KeyCreateRemote(c2, store, next, o)
    IN  IF need /\ gen.err # Nil
        THEN [cr |-> c2, store |-> store, next |-> next,
              res |-> [res EXCEPT !.err = gen.err, !.gens = gens]]
        ELSE IF r.err # Nil
        THEN [cr |-> c, store |-> r.store, next |-> r.next,
              res |-> [res EXCEPT !.err = Wrap(r.err, errCreateFailedKey),
                                  !.gens = gens, !.calls = <<r.call>>]]
        ELSE [cr |-> [r.cr EXCEPT !.cond = "Available"],
              store |-> r.store, next |-> r.next,
              res |-> [res EXCEPT !.gens = gens, !.calls = <<r.call>>,
                                  !.conn = conn, !.nameAssigned = TRUE]]

\* external.Create; gen is what keygen returns if it is invoked
KeyCreate(i, c, store, next, o, gen) ==
    LET res  == Result("Create", i, c)
        c1   == [c EXCEPT !.cond = "Creating"]
        need == c1.spec.PublicKey.Key = ""
        c2   == IF need THEN [c1 EXCEPT !.spec.PublicKey.Key = gen.public]
                ELSE c1
        conn == KeyConnectionDetails(need, gen)
        gens == IF need THEN 1 ELSE 0
        r    == KeyCreateRemote(c2, store, next, o)
    IN  IF need /\ gen.err # Nil
        THEN [cr |-> c2, store |-> store, next |-> next,
              res |-> [res EXCEPT !.err = gen.err, !.gens = gens]]
        ELSE IF r.err # Nil
        THEN [cr |-> r.cr, store |-> r.store, next |-> r.next,
              res |-> [res EXCEPT !.err = Wrap(r.err, errCreateFailedKey),
                                  !.gens = gens, !.calls = <<r.call>>]]
        ELSE [cr |-> [r.cr EXCEPT !.cond = "Available"],
              store |-> r.store, next |-> r.next,
              res |-> [res EXCEPT !.gens = gens, !.calls = <<r.call>>,
                                  !.conn = conn, !.nameAssigned = TRUE]]

\* KeyUpdate putting the whole declared key on the server
KeyUpdateWholeKey(i, c, store, next, o) ==
    LET res  == Result("Update", i, c)
        id   == Atoi(c.externalName).val
        perm == c.spec.PublicKey.Permission
        r    == UpdateAccessKeyPermission(store, id, perm, o)
        call == Call("UpdateAccessKeyPermission", Repo(c), id,
                     [Permission |-> perm], r.status, 0)
        put  == IF Handled(o) /\ Present(store, id)
                THEN [store EXCEPT ![id] = KeyDescription(id, AccessKeyOf(c))]
                ELSE store
    IN  [cr |-> c, store |-> put, next |-> next,
         res |-> IF r.err # Nil
                 THEN [res EXCEPT !.calls = <<call>>,
                                  !.err = Wrap(r.err, errUpdateFailedKey)]
                 ELSE [res EXCEPT !.calls = <<call>>]]

\* KeyUpdate issuing the remote update a second time when it failed
KeyUpdateRetrying(i, c, store, next, o) ==
    LET res  == Result("Update", i, c)
        id   == Atoi(c.externalName).val
        perm == c.spec.PublicKey.Permission
        r    == UpdateAccessKeyPermission(store, id, perm, o)
        call == Call("UpdateAccessKeyPermission", Repo(c), id,
                     [Permission |-> perm], r.status, 0)
        r2   == UpdateAccessKeyPermission(r.store, id, perm, o)
        again == Call("UpdateAccessKeyPermission", Repo(c), id,
                      [Permission |-> perm], r2.status, 0)
    IN  IF r.err = Nil
        THEN [cr |-> c, store |-> r.store, next |-> next,
              res |-> [res EXCEPT !.calls = <<call>>]]
        ELSE [cr |-> c, store |-> r2.store, next |-> next,
              res |-> IF r2.err # Nil
                      THEN [res EXCEPT !.calls = <<call, again>>,
                                       !.err = Wrap(r2.err, errUpdateFailedKey)]
                      ELSE [res EXCEPT !.calls = <<call, again>>]]

\* external.Update
KeyUpdate(i, c, store, next, o) ==
    LET res  == Result("Update", i, c)
        id   == Atoi(c.externalName).val
        perm == c.spec.PublicKey.Permission
        r    == UpdateAccessKeyPermission(store, id, perm, o)
        call == Call("UpdateAccessKeyPermission", Repo(c), id,
                     [Permission |-> perm], r.status, 0)
    IN  [cr |-> c, store |-> r.store, next |-> next,
         res |-> IF r.err # Nil
                 THEN [res EXCEPT !.calls = <<call>>,
                                  !.err = Wrap(r.err, errUpdateFailedKey)]
                 ELSE [res EXCEPT !.calls = <<call>>]]

\* KeyDelete setting the condition before the remote call, as the webhook
\* Delete does
KeyDeleteEager(i, c, store, next, o) ==
    LET res  == Result("Delete", i, c)
        id   == Atoi(c.externalName).val
        r    == DeleteAccessKey(store, id, o)
        call == Call("DeleteAccessKey", Repo(c), id, NoBody, r.status, 0)
    IN  [cr |-> [c EXCEPT !.cond = "Deleting"],
         store |-> r.store, next |-> next,
         res |-> IF r.err # Nil
                 THEN [res EXCEPT !.calls = <<call>>,
                                  !.err = Wrap(r.err, errDeleteFailedKey)]
                 ELSE [res EXCEPT !.calls = <<call>>]]

\* external.Delete
KeyDelete(i, c, store, next, o) ==
    LET res  == Result("Delete", i, c)
        id   == Atoi(c.externalName).val
        r    == DeleteAccessKey(store, id, o)
        call == Call("DeleteAccessKey", Repo(c), id, NoBody, r.status, 0)
    IN  IF r.err # Nil
        THEN [cr |-> c, store |-> r.store, next |-> next,
              res |-> [res EXCEPT !.calls = <<call>>,
                                  !.err = Wrap(r.err, errDeleteFailedKey)]]
        ELSE [cr |-> [c EXCEPT !.cond = "Deleting"],
              store |-> r.store, next |-> next,
              res |-> [res EXCEPT !.calls = <<call>>]]

(***************************************************************************)
(* The Webhook reconciler (external in package webhook)                    *)
(***************************************************************************)
errGetFailedHook == "cannot get webhook from bitbucket API"
errDeleteFailedHook == "cannot delete webhook from bitbucket API"
errCreateFailedHook == "cannot create webhook with bitbucket API"
errUpdateFailedHook == "cannot update webhook with bitbucket API"

\* seq with e put before the first element of a greater rank
RECURSIVE InsertSorted(_, _)
InsertSorted(e, seq) ==
    IF seq = <<>> THEN <<e>>
    ELSE IF EventRank(e) <= EventRank(Head(seq)) THEN <<e>> \o seq
    ELSE <<Head(seq)>> \o InsertSorted(e, Tail(seq))

\* a sort that also drops the repetitions of an event
RECURSIVE SortStringsDistinct(_)
SortStringsDistinct(seq) ==
    IF seq = <<>> THEN <<>>
    ELSE LET rest == SortStringsDistinct(Tail(seq))
         IN  IF \E k \in 1..Len(rest) : rest[k] = Head(seq) THEN rest
             ELSE InsertSorted(Head(seq), rest)

\* sort.Strings
RECURSIVE SortStrings(_)
SortStrings(seq) ==
    IF seq = <<>> THEN <<>>
    ELSE InsertSorted(Head(seq), SortStrings(Tail(seq)))

\* IgnoreEventOrder sorting the list it was handed, without the copy
IgnoreEventOrderInPlace(webhook) ==
    [out |-> [webhook EXCEPT !.Events = SortStrings(webhook.Events)],
     arg |-> [webhook EXCEPT !.Events = SortStrings(webhook.Events)]]

\* the "Sort" transformer of Observe: out is the webhook it returns, arg is
\* the webhook it was handed as that one is after the call (the event list
\* is copied before it is sorted, so the argument keeps its order)
IgnoreEventOrder(webhook) ==
    LET copy == [k \in 1..Len(webhook.Events) |-> webhook.Events[k]]
    IN  [out |-> [webhook EXCEPT !.Events = SortStrings(copy)],
         arg |-> webhook]

\* DiffEmpty without the ignoreID option
DiffEmptyWithID(x, y) ==
    LET tx == IgnoreEventOrder(x).out
        ty == IgnoreEventOrder(y).out
    IN  tx = ty

\* DiffEmpty with the URL left out of the comparison
DiffEmptyIgnoringURL(x, y) ==
    LET tx == IgnoreEventOrder(x).out
        ty == IgnoreEventOrder(y).out
    IN  /\ tx.Name = ty.Name
        /\ tx.Configuration = ty.Configuration
        /\ tx.Events = ty.Events

\* cmp.Diff(x, y, ignoreEventOrder, ignoreID) == "": every field but ID is
\* equal once both event lists are sorted
DiffEmpty(x, y) ==
    LET tx == IgnoreEventOrder(x).out
        ty == IgnoreEventOrder(y).out
    IN  /\ tx.Name = ty.Name
        /\ tx.Configuration = ty.Configuration
        /\ tx.Events = ty.Events
        /\ tx.URL = ty.URL

\* HookIdentity with the parse error dropped, as Update and Delete drop it
HookIdentityUnchecked(c) == [ok |-> TRUE, val |-> Atoi(c.externalName).val]

\* the identity Observe reads off the external name: none when the name is
\* empty or is no number
HookIdentity(c) ==
    IF c.externalName = <<>> THEN [ok |-> FALSE, val |-> 0]
    ELSE Atoi(c.externalName)

\* HookObserve that puts the declared webhook on the server when it finds a
\* difference
HookObserveRepairing(i, c, store, next, o) ==
    LET res  == Result("Observe", i, c)
        same == [cr |-> c, store |-> store, next |-> next, res |-> res]
        a    == HookIdentity(c)
        g    == GetWebhook(store, a.val, o)
        call == Call("GetWebhook", Repo(c), a.val, NoBody, g.status, g.val.ID)
        u    == UpdateWebhook(store, a.val, WebhookOf(c), "ok")
        put  == Call("UpdateWebhook", Repo(c), a.val, WebhookOf(c), u.status,
                     u.val.ID)
    IN  IF ~a.ok THEN same
        ELSE IF g.err # Nil
             THEN IF ErrorsIs(g.err, ErrNotFound)
                  THEN [same EXCEPT !.res.calls = <<call>>]
                  ELSE [same EXCEPT !.res.calls = <<call>>,
                                    !.res.err = Wrap(g.err, errGetFailedHook)]
        ELSE IF DiffEmpty(WebhookOf(c), g.val)
        THEN [same EXCEPT
                !.res.calls = <<call>>,
                !.res.exists = TRUE,
                !.res.upToDate = TRUE,
                !.res.compared = <<WebhookOf(c), g.val>>]
        ELSE [same EXCEPT
                !.store = u.store,
                !.res.calls = <<call, put>>,
                !.res.exists = TRUE,
                !.res.upToDate = TRUE,
                !.res.compared = <<WebhookOf(c), g.val>>]

\* HookObserve that takes a webhook whose get failed for one that exists
HookObserveOptimistic(i, c, store, next, o) ==
    LET res  == Result("Observe", i, c)
        same == [cr |-> c, store |-> store, next |-> next, res |-> res]
        a    == HookIdentity(c)
        g    == GetWebhook(store, a.val, o)
        call == Call("GetWebhook", Repo(c), a.val, NoBody, g.status, g.val.ID)
    IN  IF ~a.ok THEN same
        ELSE IF g.err # Nil
             THEN IF ErrorsIs(g.err, ErrNotFound)
                  THEN [same EXCEPT !.res.calls = <<call>>]
                  ELSE [same EXCEPT !.res.calls = <<call>>,
                                    !.res.exists = TRUE,
                                    !.res.err = Wrap(g.err, errGetFailedHook)]
        ELSE [same EXCEPT
                !.res.calls = <<call>>,
                !.res.exists = TRUE,
                !.res.upToDate = DiffEmpty(WebhookOf(c), g.val),
                !.res.compared = <<IgnoreEventOrder(WebhookOf(c)).arg,
                                   IgnoreEventOrder(g.val).arg>>]

\* external.Observe
HookObserve(i, c, store, next, o) ==
    LET res  == Result("Observe", i, c)
        same == [cr |-> c, store |-> store, next |-> next, res |-> res]
        a    == HookIdentity(c)
        g    == GetWebhook(store, a.val, o)
        call == Call("GetWebhook", Repo(c), a.val, NoBody, g.status, g.val.ID)
    IN  IF ~a.ok THEN same
        ELSE IF g.err # Nil
             THEN IF ErrorsIs(g.err, ErrNotFound)
                  THEN [same EXCEPT !.res.calls = <<call>>]
                  ELSE [same EXCEPT !.res.calls = <<call>>,
                                    !.res.err = Wrap(g.err, errGetFailedHook)]
        ELSE [same EXCEPT
                !.res.calls = <<call>>,
                !.res.exists = TRUE,
                !.res.upToDate = DiffEmpty(WebhookOf(c), g.val),
                !.res.compared = <<IgnoreEventOrder(WebhookOf(c)).arg,
                                   IgnoreEventOrder(g.val).arg>>]

\* HookToCreate without the generated secret put in
HookToCreateDeclared(c, need, gen) == WebhookOf(c)

\* the webhook Create sends: the declared one, with a generated secret when
\* none is declared (need)
HookToCreate(c, need, gen) ==
    IF need THEN [WebhookOf(c) EXCEPT !.Configuration.Secret = gen.secret]
    ELSE WebhookOf(c)

\* the connection details of a Create: the secret of the webhook it sent
HookConnectionDetails(hook) == ("secret" :> hook.Configuration.Secret)

\* HookCreate invoking pwgen whether a secret is declared or not
HookCreateAlwaysGenerates(i, c, store, next, o, gen) ==
    LET res  == Result("Create", i, c)
        c1   == [c EXCEPT !.cond = "Creating"]
        hook == HookToCreate(c1, TRUE, gen)
        r    == CreateWebhook(store, next, hook, o)
        call == Call("CreateWebhook", Repo(c1), 0, hook, r.status, r.val.ID)
    IN  IF gen.err # Nil
        THEN [cr |-> c1, store |-> store, next |-> next,
              res |-> [res EXCEPT
                         !.err = Wrap(gen.err,
                                      "could not generate random password"),
                         !.gens = 1]]
        ELSE IF r.err # Nil
        THEN [cr |-> c1, store |-> r.store, next |-> r.next,
              res |-> [res EXCEPT !.err = Wrap(r.err, errCreateFailedHook),
                                  !.gens = 1, !.calls = <<call>>]]
        ELSE [cr |-> [c1 EXCEPT !.externalName = Sprint(r.val.ID),
                                !.cond = "Available"],
              store |-> r.store, next |-> r.next,
              res |-> [res EXCEPT
                         !.gens = 1, !.calls = <<call>>,
                         !.conn = HookConnectionDetails(hook),
                         !.nameAssigned = TRUE]]

\* HookCreate that sends the webhook before it looks at the error of pwgen
HookCreateCallsAnyway(i, c, store, next, o, gen) ==
    LET res  == Result("Create", i, c)
        c1   == [c EXCEPT !.cond = "Creating"]
        need == WebhookOf(c1).Configuration.Secret = ""
        hook == HookToCreate(c1, need, gen)
        gens == IF need THEN 1 ELSE 0
        r    == CreateWebhook(store, next, hook, o)
        call == Call("CreateWebhook", Repo(c1), 0, hook, r.status, r.val.ID)
    IN  IF need /\ gen.err # Nil
        THEN [cr |-> c1, store |-> r.store, next |-> r.next,
              res |-> [res EXCEPT
                         !.err = Wrap(gen.err,
                                      "could not generate random password"),
                         !.gens = gens, !.calls = <<call>>]]
        ELSE IF r.err # Nil
        THEN [cr |-> c1, store |-> r.store, next |-> r.next,
              res |-> [res EXCEPT !.err = Wrap(r.err, errCreateFailedHook),
                                  !.gens = gens, !.calls = <<call>>]]
        ELSE [cr |-> [c1 EXCEPT !.externalName = Sprint(r.val.ID),
                                !.cond = "Available"],
              store |-> r.store, next |-> r.next,
              res |-> [res EXCEPT
                         !.gens = gens, !.calls = <<call>>,
                         !.conn = HookConnectionDetails(hook),
                         !.nameAssigned = TRUE]]

\* HookCreate keeping the generated secret in the managed resource
HookCreateStoresSecret(i, c, store, next, o, gen) ==
    LET res  == Result("Create", i, c)
        need == WebhookOf(c).Configuration.Secret = ""
        c1   == IF need /\ gen.err = Nil
                THEN [c EXCEPT !.cond = "Creating",
                               !.spec.Webhook.Configuration.Secret =
                                   gen.secret]
                ELSE [c EXCEPT !.cond = "Creating"]
        hook == WebhookOf(c1)
        gens == IF need THEN 1 ELSE 0
        r    == CreateWebhook(store, next, hook, o)
        call == Call("CreateWebhook", Repo(c1), 0, hook, r.status, r.val.ID)
    IN  IF need /\ gen.err # Nil
        THEN [cr |-> c1, store |-> store, next |-> next,
              res |-> [res EXCEPT
                         !.err = Wrap(gen.err,
                                      "could not generate random password"),
                         !.gens = gens]]
        ELSE IF r.err # Nil
        THEN [cr |-> c1, store |-> r.store, next |-> r.next,
              res |-> [res EXCEPT !.err = Wrap(r.err, errCreateFailedHook),
                                  !.gens = gens, !.calls = <<call>>]]
        ELSE [cr |-> [c1 EXCEPT !.externalName = Sprint(r.val.ID),
                                !.cond = "Available"],
              store |-> r.store, next |-> r.next,
              res |-> [res EXCEPT
                         !.gens = gens, !.calls = <<call>>,
                         !.conn = HookConnectionDetails(hook),
                         !.nameAssigned = TRUE]]

\* external.Create; gen is what pwgen returns if it is invoked
HookCreate(i, c, store, next, o, gen) ==
    LET res  == Result("Create", i, c)
        c1   == [c EXCEPT !.cond = "Creating"]
        need == WebhookOf(c1).Configuration.Secret = ""
        hook == HookToCreate(c1, need, gen)
        gens == IF need THEN 1 ELSE 0
        r    == CreateWebhook(store, next, hook, o)
        call == Call("CreateWebhook", Repo(c1), 0, hook, r.status, r.val.ID)
    IN  IF need /\ gen.err # Nil
        THEN [cr |-> c1, store |-> store, next |-> next,
              res |-> [res EXCEPT
                         !.err = Wrap(gen.err,
                                      "could not generate random password"),
                         !.gens = gens]]
        ELSE IF r.err # Nil
        THEN [cr |-> c1, store |-> r.store, next |-> r.next,
              res |-> [res EXCEPT !.err = Wrap(r.err, errCreateFailedHook),
                                  !.gens = gens, !.calls = <<call>>]]
        ELSE [cr |-> [c1 EXCEPT !.externalName = Sprint(r.val.ID),
                                !.cond = "Available"],
              store |-> r.store, next |-> r.next,
              res |-> [res EXCEPT
                         !.gens = gens, !.calls = <<call>>,
                         !.conn = HookConnectionDetails(hook),
                         !.nameAssigned = TRUE]]

\* HookUpdate leaving the condition alone, as the access key Update does
HookUpdateSilent(i, c, store, next, o) ==
    LET res  == Result("Update", i, c)
        id   == Atoi(c.externalName).val
        r    == UpdateWebhook(store, id, WebhookOf(c), o)
        call == Call("UpdateWebhook", Repo(c), id, WebhookOf(c), r.status,
                     r.val.ID)
    IN  [cr |-> c, store |-> r.store, next |-> next,
         res |-> IF r.err # Nil
                 THEN [res EXCEPT !.calls = <<call>>,
                                  !.err = Wrap(r.err, errUpdateFailedHook)]
                 ELSE [res EXCEPT !.calls = <<call>>]]

\* HookUpdate sending the URL alone, the other fields left at their zero value
HookUpdateURLOnly(i, c, store, next, o) ==
    LET res  == Result("Update", i, c)
        id   == Atoi(c.externalName).val
        hook == [ZeroWebhook EXCEPT !.URL = WebhookOf(c).URL]
        r    == UpdateWebhook(store, id, hook, o)
        call == Call("UpdateWebhook", Repo(c), id, hook, r.status, r.val.ID)
    IN  IF r.err # Nil
        THEN [cr |-> c, store |-> r.store, next |-> next,
              res |-> [res EXCEPT !.calls = <<call>>,
                                  !.err = Wrap(r.err, errUpdateFailedHook)]]
        ELSE [cr |-> [c EXCEPT !.cond = "Available"],
              store |-> r.store, next |-> next,
              res |-> [res EXCEPT !.calls = <<call>>]]

\* external.Update
HookUpdate(i, c, store, next, o) ==
    LET res  == Result("Update", i, c)
        id   == Atoi(c.externalName).val
        r    == UpdateWebhook(store, id, WebhookOf(c), o)
        call == Call("UpdateWebhook", Repo(c), id, WebhookOf(c), r.status,
                     r.val.ID)
    IN  IF r.err # Nil
        THEN [cr |-> c, store |-> r.store, next |-> next,
              res |-> [res EXCEPT !.calls = <<call>>,
                                  !.err = Wrap(r.err, errUpdateFailedHook)]]
        ELSE [cr |-> [c EXCEPT !.cond = "Available"],
              store |-> r.store, next |-> next,
              res |-> [res EXCEPT !.calls = <<call>>]]

\* HookDelete clearing the external name once the webhook is deleted
HookDeleteForgetful(i, c, store, next, o) ==
    LET res  == Result("Delete", i, c)
        c1   == [c EXCEPT !.cond = "Deleting"]
        id   == Atoi(c1.externalName).val
        r    == DeleteWebhook(store, id, o)
        call == Call("DeleteWebhook", Repo(c1), id, NoBody, r.status, 0)
    IN  IF r.err # Nil
        THEN [cr |-> c1, store |-> r.store, next |-> next,
              res |-> [res EXCEPT !.calls = <<call>>,
                                  !.err = Wrap(r.err, errDeleteFailedHook)]]
        ELSE [cr |-> [c1 EXCEPT !.externalName = <<>>],
              store |-> r.store, next |-> next,
              res |-> [res EXCEPT !.calls = <<call>>]]

\* external.Delete
HookDelete(i, c, store, next, o) ==
    LET res  == Result("Delete", i, c)
        c1   == [c EXCEPT !.cond = "Deleting"]
        id   == Atoi(c1.externalName).val
        r    == DeleteWebhook(store, id, o)
        call == Call("DeleteWebhook", Repo(c1), id, NoBody, r.status, 0)
    IN  [cr |-> c1, store |-> r.store, next |-> next,
         res |-> IF r.err # Nil
                 THEN [res EXCEPT !.calls = <<call>>,
                                  !.err = Wrap(r.err, errDeleteFailedHook)]
                 ELSE [res EXCEPT !.calls = <<call>>]]

(***************************************************************************)
(* The state machine.  A run reconciles the managed resources in DOMAIN cr *)
(* against the server's resources, remote[kind][id].  last is the result   *)
(* of the latest reconciler call and prev a summary of the one before it.  *)
(***************************************************************************)
KeyInst == "key"
HookInst == "hook"

\* what pwgen can return: a fresh secret or a failure of the random source
PwgenResults ==
    {[secret |-> "generated-1", err |-> Nil],
     [secret |-> "generated-2", err |-> Nil],
     [secret |-> "", err |-> <<"rand: read failed">>]}

\* what keygen can return: a fresh key pair or a failure
KeygenResults ==
    {[public |-> "ssh-rsa generated-1", private |-> "PEM generated-1",
      err |-> Nil],
     [public |-> "ssh-rsa generated-2", private |-> "PEM generated-2",
      err |-> Nil],
     [public |-> "", private |-> "", err |-> <<"rsa: generate failed">>]}

\* external names a managed resource can carry before its first Create:
\* none, or the resource's own name (which is no number)
InitialNames == {<<>>, <<"e", "x">>}

InitialKeys ==
    {[kind |-> "AccessKey", externalName |-> n, cond |-> "None",
      spec |-> [ProjectKey |-> "TEST", RepoName |-> "test",
                PublicKey |-> [Label |-> "test2", Key |-> k,
                               Permission |-> p]],
      atProvider |-> [ID |-> 0, Key |-> NoKey]] :
     n \in InitialNames, k \in {"", "ssh-rsa 100"},
     p \in {PermissionRepoRead}}

\* the event list of a webhook as its manifest declares it
InitialEvents == {<<"repo:refs_changed", "repo:modified">>}

InitialHooks ==
    {[kind |-> "Webhook", externalName |-> n, cond |-> "None",
      spec |-> [ProjectKey |-> "TEST", RepoName |-> "test",
                Webhook |-> [Name |-> "build-trigger",
                             Configuration |-> [Secret |-> s],
                             Events |-> ev,
                             URL |-> "https://hooks.example.com/test"]],
      atProvider |-> [ID |-> 0]] :
     n \in InitialNames, s \in {"", "123"}, ev \in InitialEvents}

NoResult == Result("None", "none", Absent)

EmptyStore == [id \in RemoteIDs |-> Absent]

FreeHost == [pc |-> "free", fails |-> 0]

InitWith(h) ==
    /\ \/ \E c \in InitialKeys : cr = (KeyInst :> c)
       \/ \E c \in InitialHooks : cr = (HookInst :> c)
    /\ remote = [k \in Kinds |-> EmptyStore]
    /\ nextID = [k \in Kinds |-> FirstID]
    /\ last = NoResult
    /\ prev = Summary(NoResult)
    /\ host = h

Init == InitWith(FreeHost)

Store(i) == remote[cr[i].kind]
Next_ID(i) == nextID[cr[i].kind]

ObserveStep(i, o) ==
    IF cr[i].kind = "AccessKey"
    THEN KeyObserve(i, cr[i], Store(i), Next_ID(i), o)
    ELSE HookObserve(i, cr[i], Store(i), Next_ID(i), o)

CreateStep(i, o, gen) ==
    IF cr[i].kind = "AccessKey"
    THEN KeyCreate(i, cr[i], Store(i), Next_ID(i), o, gen)
    ELSE HookCreate(i, cr[i], Store(i), Next_ID(i), o, gen)

UpdateStep(i, o) ==
    IF cr[i].kind = "AccessKey"
    THEN KeyUpdate(i, cr[i], Store(i), Next_ID(i), o)
    ELSE HookUpdate(i, cr[i], Store(i), Next_ID(i), o)

DeleteStep(i, o) ==
    IF cr[i].kind = "AccessKey"
    THEN KeyDelete(i, cr[i], Store(i), Next_ID(i), o)
    ELSE HookDelete(i, cr[i], Store(i), Next_ID(i), o)

\* the generator results of the kind of i
GenResults(i) ==
    IF cr[i].kind = "AccessKey" THEN KeygenResults ELSE PwgenResults

\* the state after a reconciler call that came out as st
\* Apply with one condition kept for all managed resources
ApplySharedCondition(i, st) ==
    /\ cr' = [j \in DOMAIN cr |->
                IF j = i THEN st.cr ELSE [cr[j] EXCEPT !.cond = st.cr.cond]]
    /\ remote' = [remote EXCEPT ![cr[i].kind] = st.store]
    /\ nextID' = [nextID EXCEPT ![cr[i].kind] = st.next]
    /\ prev' = Summary(last)
    /\ last' = st.res

Apply(i, st) ==
    /\ cr' = [cr EXCEPT ![i] = st.cr]
    /\ remote' = [remote EXCEPT ![cr[i].kind] = st.store]
    /\ nextID' = [nextID EXCEPT ![cr[i].kind] = st.next]
    /\ prev' = Summary(last)
    /\ last' = st.res

\* the server has an ID left to hand out
CanAssign(i) == Next_ID(i) <= LastID

Observe(i) ==
    \E o \in GetOutcomes :
        /\ Apply(i, ObserveStep(i, o))
        /\ UNCHANGED host

Create(i) ==
    \E o \in Outcomes, gen \in GenResults(i) :
        /\ Handled(o) => CanAssign(i)
        /\ Apply(i, CreateStep(i, o, gen))
        /\ UNCHANGED host

Update(i) ==
    \E o \in Outcomes :
        /\ Apply(i, UpdateStep(i, o))
        /\ UNCHANGED host

Delete(i) ==
    \E o \in Outcomes :
        /\ Apply(i, DeleteStep(i, o))
        /\ UNCHANGED host

\* the user edits the one mutable declared field of an access key: read
\* access becomes write access
EditPermission(i) ==
    /\ cr[i].kind = "AccessKey"
    /\ cr[i].spec.PublicKey.Permission = PermissionRepoRead
    /\ cr' = [cr EXCEPT ![i].spec.PublicKey.Permission = PermissionRepoWrite]
    /\ UNCHANGED <<remote, nextID, last, prev, host>>

\* the user moves a webhook to another URL
EditURL(i) ==
    /\ cr[i].kind = "Webhook"
    /\ cr[i].spec.Webhook.URL = "https://hooks.example.com/test"
    /\ cr' = [cr EXCEPT ![i].spec.Webhook.URL = "https://hooks.example.com/2"]
    /\ UNCHANGED <<remote, nextID, last, prev, host>>

\* somebody else deletes a resource on the server
RemoteDelete(k, id) ==
    /\ remote[k][id] # Absent
    /\ remote' = [remote EXCEPT ![k][id] = Absent]
    /\ UNCHANGED <<cr, nextID, last, prev, host>>

Next ==
    \/ \E i \in DOMAIN cr : Observe(i)
    \/ \E i \in DOMAIN cr : Create(i)
    \/ \E i \in DOMAIN cr : Update(i)
    \/ \E i \in DOMAIN cr : Delete(i)
    \/ \E i \in DOMAIN cr : EditPermission(i)
    \/ \E i \in DOMAIN cr : EditURL(i)
    \/ \E k \in Kinds, id \in RemoteIDs : RemoteDelete(k, id)

Spec == Init /\ [][Next]_vars

(***************************************************************************)
(* The host loop (the managed reconciler the externals are registered      *)
(* with): it calls Observe, then Create when the resource does not exist,  *)
(* Update when it exists and is not up to date, and starts over; a call    *)
(* that returned an error is followed by a new pass.  Nothing else changes *)
(* the managed resource or the server, and at most MaxFailures calls fail. *)
(***************************************************************************)
LoopHost == [pc |-> "observe", fails |-> 0]

\* the state in which managed resource c of instance i carries the first ID
\* as its identity and the server keeps stored under that ID
Adopted(i, c, stored, h) ==
    /\ cr = (i :> [c EXCEPT !.externalName = Sprint(FirstID)])
    /\ remote = [k \in Kinds |->
                    IF k = c.kind THEN [EmptyStore EXCEPT ![FirstID] = stored]
                    ELSE EmptyStore]
    /\ nextID = [k \in Kinds |-> IF k = c.kind THEN FirstID + 1 ELSE FirstID]
    /\ last = NoResult
    /\ prev = Summary(NoResult)
    /\ host = h

\* a pass starts on a resource never created, or on one created in an
\* earlier pass whose permission or URL differs from the declared one
LoopInit ==
    \/ InitWith(LoopHost)
    \/ \E c \in InitialKeys, p \in Permissions :
           /\ c.spec.PublicKey.Key # ""
           /\ Adopted(KeyInst, c,
                      KeyDescription(FirstID,
                                     [AccessKeyOf(c) EXCEPT !.Permission = p]),
                      LoopHost)
    \/ \E c \in InitialHooks,
          u \in {"https://hooks.example.com/test", "https://hooks.example.com/2"} :
           /\ c.spec.Webhook.Configuration.Secret # ""
           /\ Adopted(HookInst, c,
                      [WebhookOf(c) EXCEPT !.ID = FirstID, !.URL = u],
                      LoopHost)

\* what the host does after a call that returned res
AfterObserve(res) ==
    IF res.err # Nil THEN "observe"
    ELSE IF ~res.exists THEN "create"
    ELSE IF ~res.upToDate THEN "update"
    ELSE "observe"

\* a call may fail while failures are left
WithinBudget(st) == st.res.err # Nil => host.fails < MaxFailures

Spend(st, pc) ==
    host' = [pc |-> pc,
             fails |-> IF st.res.err # Nil THEN host.fails + 1 ELSE host.fails]

LoopObserve(i) ==
    /\ host.pc = "observe"
    /\ \E o \in GetOutcomes :
           \E st \in {ObserveStep(i, o)} :
               WithinBudget(st) /\ Apply(i, st)
               /\ Spend(st, AfterObserve(st.res))

LoopCreate(i) ==
    /\ host.pc = "create"
    /\ \E o \in Outcomes, gen \in GenResults(i) :
           /\ Handled(o) => CanAssign(i)
           /\ o = "lost" => Next_ID(i) < LastID
           /\ \E st \in {CreateStep(i, o, gen)} :
                  WithinBudget(st) /\ Apply(i, st) /\ Spend(st, "observe")

LoopUpdate(i) ==
    /\ host.pc = "update"
    /\ \E o \in Outcomes :
           \E st \in {UpdateStep(i, o)} :
               WithinBudget(st) /\ Apply(i, st) /\ Spend(st, "observe")

LoopNext ==
    \/ \E i \in DOMAIN cr : LoopObserve(i)
    \/ \E i \in DOMAIN cr : LoopCreate(i)
    \/ \E i \in DOMAIN cr : LoopUpdate(i)

\* the host keeps reconciling: a pass that can be made is made
SpecLoop == LoopInit /\ [][LoopNext]_vars /\ WF_vars(LoopNext)

(***************************************************************************)
(* Observe as a function of the managed resource and the remote resource:  *)
(* every declared resource against every resource the server can hold      *)
(* under the declared identity.                                            *)
(***************************************************************************)
DiffKeys ==
    {[kind |-> "AccessKey", externalName |-> <<>>, cond |-> "None",
      spec |-> [ProjectKey |-> "TEST", RepoName |-> "test",
                PublicKey |-> [Label |-> l, Key |-> k, Permission |-> p]],
      atProvider |-> [ID |-> 0, Key |-> NoKey]] :
     l \in {"test2", "other"}, k \in {"ssh-rsa 100", "ssh-rsa 200"},
     p \in Permissions}

DiffHooks ==
    {[kind |-> "Webhook", externalName |-> <<>>, cond |-> "None",
      spec |-> [ProjectKey |-> "TEST", RepoName |-> "test",
                Webhook |-> [Name |-> n,
                             Configuration |-> [Secret |-> s],
                             Events |-> ev,
                             URL |-> u]],
      atProvider |-> [ID |-> 0]] :
     n \in {"build-trigger", "other"}, s \in {"123", "456"},
     ev \in EventLists,
     u \in {"https://hooks.example.com/test", "https://hooks.example.com/2"}}

DiffInit ==
    \/ \E c \in DiffKeys, d \in DiffKeys :
           Adopted(KeyInst, c, KeyDescription(FirstID, AccessKeyOf(d)),
                   FreeHost)
    \/ \E c \in DiffHooks, d \in DiffHooks :
           Adopted(HookInst, c, [WebhookOf(d) EXCEPT !.ID = FirstID],
                   FreeHost)

DiffNext == \E i \in DOMAIN cr : Observe(i)

SpecDiff == DiffInit /\ [][DiffNext]_vars

(***************************************************************************)
(* Update of an access key whose declared label, key or permission was     *)
(* edited after its creation: the server holds the key as it was created   *)
(* under the declared identity, and another key of the same repository.    *)
(***************************************************************************)
UpdateInit ==
    \E c \in DiffKeys, d \in DiffKeys :
        /\ cr = (KeyInst :> [c EXCEPT !.externalName = Sprint(FirstID)])
        /\ remote =
             [k \in Kinds |->
                IF k = "AccessKey"
                THEN [EmptyStore EXCEPT
                        ![FirstID] = KeyDescription(FirstID, AccessKeyOf(d)),
                        ![LastID] = KeyDescription(LastID, AccessKeyOf(c))]
                ELSE EmptyStore]
        /\ nextID = [k \in Kinds |-> IF k = "AccessKey" THEN LastID + 1
                                     ELSE FirstID]
        /\ last = NoResult
        /\ prev = Summary(NoResult)
        /\ host = FreeHost

UpdateNext ==
    \/ \E i \in DOMAIN cr : Observe(i)
    \/ \E i \in DOMAIN cr : Update(i)

SpecUpdate == UpdateInit /\ [][UpdateNext]_vars

(***************************************************************************)
(* The host loop once the deletion of the managed resource is requested:   *)
(* Observe, then Delete while the resource exists, then Observe again;     *)
(* when Observe reports that nothing exists the host is done.  Somebody    *)
(* else may remove the resource between an Observe and the Delete.  The    *)
(* server, or the way to it, fails MaxFailures times at most.              *)
(***************************************************************************)
AfterDeletingObserve(res) ==
    IF res.err # Nil THEN "observe"
    ELSE IF res.exists THEN "delete"
    ELSE "done"

\* the outcomes left to a call: failures while failures are left
Affordable(o) == o # "ok" => host.fails < MaxFailures

Charge(o, pc) ==
    host' = [pc |-> pc,
             fails |-> IF o # "ok" THEN host.fails + 1 ELSE host.fails]

DeletingObserve(i) ==
    /\ host.pc = "observe"
    /\ \E o \in GetOutcomes :
           /\ Affordable(o)
           /\ \E st \in {ObserveStep(i, o)} :
                  Apply(i, st) /\ Charge(o, AfterDeletingObserve(st.res))

DeletingDelete(i) ==
    /\ host.pc = "delete"
    /\ \E o \in Outcomes :
           /\ Affordable(o)
           /\ \E st \in {DeleteStep(i, o)} :
                  Apply(i, st) /\ Charge(o, "observe")

RemovedOutOfBand ==
    /\ host.pc = "delete"
    /\ \E k \in Kinds, id \in RemoteIDs : RemoteDelete(k, id)

DeletingPass == \E i \in DOMAIN cr : DeletingObserve(i) \/ DeletingDelete(i)

DeleteLoopNext ==
    \/ \E i \in DOMAIN cr : DeletingObserve(i)
    \/ \E i \in DOMAIN cr : DeletingDelete(i)
    \/ RemovedOutOfBand

\* the host keeps reconciling; nobody is bound to interfere
SpecDeleteLoop ==
    LoopInit /\ [][DeleteLoopNext]_vars /\ WF_vars(DeletingPass)

(***************************************************************************)
(* Several managed resources reconciled side by side, their calls          *)
(* interleaved in any order: two access keys of the same repository, which *)
(* share the server's key store and its identifiers.                       *)
(***************************************************************************)
OtherKeyInst == "key2"

MultiInit ==
    /\ \E a \in InitialKeys :
           /\ a.externalName = <<>> /\ a.spec.PublicKey.Key # ""
           /\ cr = (KeyInst :> a)
                    @@ (OtherKeyInst :>
                            [a EXCEPT !.spec.PublicKey.Label = "other"])
    /\ remote = [k \in Kinds |-> EmptyStore]
    /\ nextID = [k \in Kinds |-> FirstID]
    /\ last = NoResult
    /\ prev = Summary(NoResult)
    /\ host = FreeHost

MultiNext ==
    \/ \E i \in DOMAIN cr : Observe(i)
    \/ \E i \in DOMAIN cr : Create(i)
    \/ \E i \in DOMAIN cr : Update(i)
    \/ \E i \in DOMAIN cr : Delete(i)

SpecMulti == MultiInit /\ [][MultiNext]_vars

(***************************************************************************)
(* keygen, down to the texts it returns.  A text is a sequence of tokens:  *)
(* a word, a run of white space, a base64 body (with the bytes it          *)
(* encodes), or the BEGIN or END line of a PEM block (with its type).      *)
(* Bytes are the sequence of the values serialized.  The key pair is an    *)
(* RSA pair over small primes; rand is what rand.Reader delivers.          *)
(***************************************************************************)
MaxPrime == 53

IsPrime(n) == n > 1 /\ \A d \in 2..(n - 1) : n % d # 0

KeyPrimes == {n \in 3..MaxPrime : IsPrime(n)}

\* what rand.Reader can deliver: two distinct primes, or a read failure
RandReads ==
    {[p |-> p, q |-> q, err |-> Nil] : p \in KeyPrimes, q \in KeyPrimes}
    \cup {[p |-> 0, q |-> 0, err |-> <<"rand: read failed">>]}

PublicExponent == 65537

Word(str) == [t |-> "word", v |-> str]
Space(str) == [t |-> "space", v |-> str]
Base64(bytes) == [t |-> "base64", v |-> bytes]
PemBegin(type) == [t |-> "begin", v |-> type]
PemEnd(type) == [t |-> "end", v |-> type]

KeyAlgoRSA == "ssh-rsa"
KeyAlgoED25519 == "ssh-ed25519"

\* rsa.GenerateKey
RsaGenerateKey(rand) ==
    LET phi == (rand.p - 1) * (rand.q - 1)
    IN  [PublicKey |-> [N |-> rand.p * rand.q, E |-> PublicExponent],
         D         |-> CHOOSE d \in 1..phi : (d * PublicExponent) % phi = 1,
         Primes    |-> <<rand.p, rand.q>>]

\* x509.MarshalPKCS1PrivateKey: version, modulus, exponents, primes
MarshalPKCS1PrivateKey(key) ==
    <<0, key.PublicKey.N, key.PublicKey.E, key.D,
      key.Primes[1], key.Primes[2]>>

\* x509.ParsePKCS1PrivateKey
ParsePKCS1PrivateKey(bytes) ==
    [PublicKey |-> [N |-> bytes[2], E |-> bytes[3]],
     D         |-> bytes[4],
     Primes    |-> <<bytes[5], bytes[6]>>]

\* pem.Encode
PemEncode(block) ==
    <<PemBegin(block.Type), Space("\n"), Base64(block.Bytes), Space("\n"),
      PemEnd(block.Type), Space("\n")>>

NoBlock == [Type |-> "", Bytes |-> <<>>]

\* pem.Decode: the first block of the text and what follows it
PemDecode(text) ==
    IF /\ Len(text) >= 6
       /\ text[1].t = "begin" /\ text[3].t = "base64" /\ text[5].t = "end"
       /\ text[1].v = text[5].v
    THEN [found |-> TRUE,
          block |-> [Type |-> text[1].v, Bytes |-> text[3].v],
          rest  |-> SubSeq(text, 7, Len(text))]
    ELSE [found |-> FALSE, block |-> NoBlock, rest |-> text]

\* ssh.NewPublicKey of an *rsa.PublicKey
NewPublicKey(rsaPub) == [Type |-> KeyAlgoRSA, N |-> rsaPub.N, E |-> rsaPub.E]

\* PublicKey.Marshal: the wire form, algorithm name, exponent, modulus
MarshalPublicKey(pub) == <<pub.Type, pub.E, pub.N>>

\* MarshalAuthorizedKey followed by a comment, as ssh-keygen writes .pub files
MarshalAuthorizedKeyWithComment(pub) ==
    <<Word(pub.Type), Space(" "), Base64(MarshalPublicKey(pub)),
      Space(" "), Word("generated"), Space("\n")>>

\* ssh.MarshalAuthorizedKey
MarshalAuthorizedKey(pub) ==
    <<Word(pub.Type), Space(" "), Base64(MarshalPublicKey(pub)),
      Space("\n")>>

\* keygen
Keygen(rand) ==
    IF rand.err # Nil
    THEN [public |-> <<>>, private |-> <<>>, err |-> rand.err]
    ELSE LET privateKey == RsaGenerateKey(rand)
             privateKeyPEM ==
                 [Type  |-> "RSA PRIVATE KEY",
                  Bytes |-> MarshalPKCS1PrivateKey(privateKey)]
             pub == NewPublicKey(privateKey.PublicKey)
         IN  [public  |-> MarshalAuthorizedKey(pub),
              private |-> PemEncode(privateKeyPEM),
              err     |-> Nil]

\* strings.TrimSpace
RECURSIVE TrimLeft(_)
TrimLeft(text) ==
    IF text # <<>> /\ Head(text).t = "space" THEN TrimLeft(Tail(text))
    ELSE text

RECURSIVE TrimRight(_)
TrimRight(text) ==
    IF text # <<>> /\ text[Len(text)].t = "space"
    THEN TrimRight(SubSeq(text, 1, Len(text) - 1))
    ELSE text

TrimSpace(text) == TrimRight(TrimLeft(text))

\* strings.Contains(text, "-----BEGIN " + type + "-----")
ContainsHeader(text, type) ==
    \E k \in 1..Len(text) : text[k] = PemBegin(type)

\* strings.HasPrefix(text, algo)
HasPrefix(text, algo) == text # <<>> /\ text[1] = Word(algo)

\* ssh-keygen -y -f file: the public key line of the private key in file
SshKeygenY(file) ==
    LET p == PemDecode(file)
    IN  IF p.found /\ p.block.Type = "RSA PRIVATE KEY" /\ Len(p.block.Bytes) = 6
        THEN LET key == ParsePKCS1PrivateKey(p.block.Bytes)
             IN  [out |-> <<Word(KeyAlgoRSA), Space(" "),
                            Base64(<<KeyAlgoRSA, key.PublicKey.E,
                                     key.PublicKey.N>>),
                            Space("\n")>>,
                  err |-> Nil]
        ELSE [out |-> <<Word("Load key: invalid format"), Space("\n")>>,
              err |-> <<"exit status 255">>]

(***************************************************************************)
(* Test_keygen: keygen is called, then ssh-keygen reads the private key    *)
(* back.  last holds what the latest of the two returned; host.pc is where *)
(* the test stands.                                                        *)
(***************************************************************************)
NoTexts == [op |-> "None", public |-> <<>>, private |-> <<>>,
            derived |-> <<>>, err |-> Nil]

KeygenInit ==
    /\ cr = <<>>
    /\ remote = [k \in Kinds |-> EmptyStore]
    /\ nextID = [k \in Kinds |-> FirstID]
    /\ last = NoTexts
    /\ prev = Summary(NoResult)
    /\ host = [pc |-> "keygen", fails |-> 0]

CallKeygen ==
    /\ host.pc = "keygen"
    /\ \E rand \in RandReads :
           /\ rand.p # rand.q
           /\ \E g \in {Keygen(rand)} :
                  /\ last' = [NoTexts EXCEPT !.op = "keygen",
                                             !.public = g.public,
                                             !.private = g.private,
                                             !.err = g.err]
                  /\ host' = [host EXCEPT
                                !.pc = IF g.err = Nil THEN "ssh-keygen"
                                       ELSE "done"]
    /\ UNCHANGED <<cr, remote, nextID, prev>>

RunSshKeygen ==
    /\ host.pc = "ssh-keygen"
    /\ \E r \in {SshKeygenY(last.private)} :
           last' = [last EXCEPT !.op = "ssh-keygen",
                                !.derived = r.out, !.err = r.err]
    /\ host' = [host EXCEPT !.pc = "done"]
    /\ UNCHANGED <<cr, remote, nextID, prev>>

KeygenNext == CallKeygen \/ RunSshKeygen

SpecKeygen == KeygenInit /\ [][KeygenNext]_vars

(***************************************************************************)
(* Vocabulary of the properties                                            *)
(***************************************************************************)
Digits == {"0", "1", "2", "3", "4", "5", "6", "7", "8", "9"}

\* s is written as an integer: an optional sign and at least one digit
IsInteger(s) ==
    LET body == IF s # <<>> /\ s[1] \in {"+", "-"} THEN Tail(s) ELSE s
    IN  body # <<>> /\ \A k \in 1..Len(body) : body[k] \in Digits

RECURSIVE DecimalValue(_)
DecimalValue(s) ==
    IF s = <<>> THEN 0
    ELSE 10 * DecimalValue(SubSeq(s, 1, Len(s) - 1))
         + (CHOOSE d \in 0..9 : DigitChars[d + 1] = s[Len(s)])

\* s is the decimal rendering of the natural number n
IsDecimalOf(s, n) ==
    /\ s # <<>>
    /\ \A k \in 1..Len(s) : s[k] \in Digits
    /\ Len(s) > 1 => s[1] # "0"
    /\ DecimalValue(s) = n

\* the latest call issued a remote call
Called(res) == res.calls # <<>>

\* the managed resource the latest call was about, as it is now
Subject == cr[last.inst]

Ran(op) == last.op = op

(***************************************************************************)
(* C1.  As claimed: once a managed resource carries a numeric external     *)
(* name (only a successful Create assigns one), no step changes it.        *)
(***************************************************************************)
C1_IdentityNeverChanges ==
    [][\A i \in DOMAIN cr :
          IsInteger(cr[i].externalName)
              => cr'[i].externalName = cr[i].externalName]_vars

\* C1, amended.  The external name changes only in a successful Create,
\* which sets it to the decimal rendering of the ID in the server's answer;
\* Observe, Update, Delete and a failed Create never change it.
C1_IdentityChangesOnlyInCreate ==
    [][\A i \in DOMAIN cr :
          cr'[i].externalName # cr[i].externalName
              => /\ last'.op = "Create"
                 /\ last'.inst = i
                 /\ last'.before = cr[i]
                 /\ last'.err = Nil
                 /\ last'.nameAssigned
                 /\ Called(last')
                 /\ IsDecimalOf(cr'[i].externalName, last'.calls[1].ret)]_vars

\* a Create that replaced an identity an earlier Create had assigned
C1_Witness ==
    /\ Ran("Create")
    /\ last.nameAssigned
    /\ IsInteger(last.before.externalName)
    /\ Subject.externalName # last.before.externalName

(***************************************************************************)
(* C2.  As claimed: a Create whose remote create fails returns an error,   *)
(* leaves the external name as it was and does not report it assigned;     *)
(* the Observe called next returns exists=false and no error.              *)
(***************************************************************************)
RemoteCreateFailed(res) ==
    res.op = "Create" /\ Called(res) /\ res.calls[1].status # StatusOK

C2_FailedCreateKeepsIdentity ==
    RemoteCreateFailed(last)
        => /\ last.err # Nil
           /\ Subject.externalName = last.before.externalName
           /\ ~last.nameAssigned

ObserveAfterFailedCreate ==
    Ran("Observe") /\ prev.op = "Create" /\ prev.failed /\ prev.called

C2_FailedCreateThenNotExists ==
    /\ C2_FailedCreateKeepsIdentity
    /\ ObserveAfterFailedCreate => ~last.exists /\ last.err = Nil

\* C2, amended.  The first half as claimed; the Observe called next returns
\* exists=false and no error, without a remote call, when the external name
\* is absent or no number (as on a first attempt).
C2_FailedCreateThenNotExistsIfUnassigned ==
    /\ C2_FailedCreateKeepsIdentity
    /\ (ObserveAfterFailedCreate /\ ~IsInteger(last.before.externalName))
           => ~last.exists /\ last.err = Nil /\ ~Called(last)

\* an Observe right after a failed first Create
C2_Witness ==
    /\ ObserveAfterFailedCreate
    /\ last.before.externalName = <<>>
    /\ last.before.cond = "Creating"

(***************************************************************************)
(* C3.  As claimed: a Delete whose remote delete answers 404 returns no    *)
(* error.                                                                  *)
(***************************************************************************)
C3_DeleteNotFoundIsNoError ==
    (Ran("Delete") /\ Called(last) /\ last.calls[1].status = StatusNotFound)
        => last.err = Nil

(***************************************************************************)
(* C4.  An Observe of a managed resource with a numeric external name      *)
(* whose remote get answers 404 returns exists=false and no error.         *)
(***************************************************************************)
ObservedNotFound ==
    /\ Ran("Observe")
    /\ IsInteger(last.before.externalName)
    /\ Called(last)
    /\ last.calls[1].status = StatusNotFound

C4_ObserveNotFoundIsAbsent ==
    ObservedNotFound => ~last.exists /\ last.err = Nil

C4_Witness == ObservedNotFound /\ ~last.exists /\ last.err = Nil

(***************************************************************************)
(* C5.  An Observe of a managed resource with an empty external name       *)
(* returns exists=false and no error and issues no remote call.            *)
(***************************************************************************)
C5_ObserveWithoutIdentity ==
    (Ran("Observe") /\ last.before.externalName = <<>>)
        => ~last.exists /\ last.err = Nil /\ ~Called(last)

C5_Witness ==
    Ran("Observe") /\ last.before.externalName = <<>> /\ ~last.exists

(***************************************************************************)
(* C6.  Under the host loop, with calls that stop failing and nothing else *)
(* changing the managed resource or the server, every run reaches a state  *)
(* in which Observe reports exists=true and upToDate=true without error,   *)
(* and stays in it.                                                        *)
(***************************************************************************)
Converged ==
    Ran("Observe") /\ last.exists /\ last.upToDate /\ last.err = Nil

C6_LoopConverges == <>[]Converged

\* the loop converged after it had to create or update and a call failed
C6_Witness ==
    /\ Converged
    /\ host.fails > 0
    /\ prev.op \in {"Create", "Update"}

(***************************************************************************)
(* C7.  A Create whose remote call succeeded with a resource of ID n has   *)
(* made exactly that one call, stored the decimal rendering of n as the    *)
(* external name and reported ExternalNameAssigned; the Observe that       *)
(* follows it issues one get, on the same repository, for ID n, and what   *)
(* it finds carries ID n.                                                  *)
(***************************************************************************)
CreateSucceeded == Ran("Create") /\ last.err = Nil

C7_IdentityRoundTrip ==
    /\ [](CreateSucceeded =>
            /\ Len(last.calls) = 1
            /\ last.calls[1].status = StatusOK
            /\ last.calls[1].ret \in RemoteIDs
            /\ last.nameAssigned
            /\ IsDecimalOf(Subject.externalName, last.calls[1].ret))
    /\ [][(CreateSucceeded /\ last'.op = "Observe") =>
            /\ Len(last'.calls) = 1
            /\ last'.calls[1].method \in {"GetAccessKey", "GetWebhook"}
            /\ last'.calls[1].repo = last.calls[1].repo
            /\ last'.calls[1].id = last.calls[1].ret
            /\ last'.exists => last'.calls[1].ret = last.calls[1].ret]_vars

\* an Observe right after a successful Create found the resource under a
\* two-digit ID
C7_Witness ==
    /\ Ran("Observe") /\ last.exists
    /\ prev.op = "Create" /\ ~prev.failed
    /\ last.calls[1].id = LastID
    /\ Subject.externalName = <<"1", "0">>

(***************************************************************************)
(* C8.  On a successful Create, a webhook with no declared secret has      *)
(* invoked the generator, returns {"secret": v} for a generated v and has  *)
(* sent v as the secret; a webhook with a declared secret has not invoked  *)
(* the generator and returns {"secret": declared}; an access key with no   *)
(* declared public key returns {"ssh-privatekey": generated private key};  *)
(* an access key with a declared public key has not invoked the generator  *)
(* and returns no connection details.                                      *)
(***************************************************************************)
C8_CreateConnectionDetails ==
    CreateSucceeded =>
        LET c    == last.before
            sent == last.calls[1].body
        IN  IF c.kind = "Webhook"
            THEN IF c.spec.Webhook.Configuration.Secret = ""
                 THEN /\ last.gens = 1
                      /\ \E g \in PwgenResults :
                             /\ g.err = Nil /\ g.secret # ""
                             /\ last.conn = ("secret" :> g.secret)
                             /\ sent.Configuration.Secret = g.secret
                 ELSE /\ last.gens = 0
                      /\ last.conn =
                           ("secret" :> c.spec.Webhook.Configuration.Secret)
            ELSE IF c.spec.PublicKey.Key = ""
                 THEN \E g \in KeygenResults :
                          /\ g.err = Nil
                          /\ last.conn = ("ssh-privatekey" :> g.private)
                 ELSE /\ last.gens = 0
                      /\ last.conn = NoDetails

\* a webhook with no declared secret was created
C8_Witness ==
    /\ CreateSucceeded
    /\ last.before.kind = "Webhook"
    /\ last.before.spec.Webhook.Configuration.Secret = ""
    /\ last.conn = ("secret" :> "generated-2")

(***************************************************************************)
(* C9 and C10 are about the comparison in Observe.  Declared is what the   *)
(* managed resource declares and Found the resource the server holds under *)
(* the ID Observe asked for.                                               *)
(***************************************************************************)
ObserveFound == Ran("Observe") /\ last.err = Nil /\ last.exists

DeclaredKey == last.before.spec.PublicKey
FoundKey == FromKeyDescription(remote["AccessKey"][last.calls[1].id])
DeclaredHook == last.before.spec.Webhook
FoundHook == remote["Webhook"][last.calls[1].id]

HookScalarsEqual ==
    /\ DeclaredHook.Name = FoundHook.Name
    /\ DeclaredHook.Configuration.Secret = FoundHook.Configuration.Secret
    /\ DeclaredHook.URL = FoundHook.URL

KeyScalarsEqual ==
    /\ DeclaredKey.Label = FoundKey.Label
    /\ DeclaredKey.Key = FoundKey.Key
    /\ DeclaredKey.Permission = FoundKey.Permission

(***************************************************************************)
(* C9.  As claimed: when Observe finds the remote resource it reports      *)
(* upToDate=true only if every declared scalar field equals the observed   *)
(* one (access key: label, key material, permission; webhook: name,        *)
(* secret, url).                                                           *)
(***************************************************************************)
C9_AllScalarsCompared ==
    (ObserveFound /\ last.upToDate) =>
        IF last.before.kind = "Webhook" THEN HookScalarsEqual
        ELSE KeyScalarsEqual

\* C9, amended.  For a webhook upToDate=true only if name, secret and url
\* equal the observed ones.  For an access key upToDate is true exactly when
\* the permissions are equal, whatever the label and the key material are.
C9_ComparedScalars ==
    ObserveFound =>
        IF last.before.kind = "Webhook"
        THEN last.upToDate => HookScalarsEqual
        ELSE last.upToDate <=> (DeclaredKey.Permission = FoundKey.Permission)

\* an access key was found with another label and another key and was
\* reported up to date
C9_Witness ==
    /\ ObserveFound /\ last.upToDate
    /\ last.before.kind = "AccessKey"
    /\ DeclaredKey.Label # FoundKey.Label
    /\ DeclaredKey.Key # FoundKey.Key

(***************************************************************************)
(* C10.  When the declared and the found webhook differ at most in the     *)
(* order of their event lists, the webhook Observe reports upToDate=true,  *)
(* and after the comparison both webhooks it compared and the managed      *)
(* resource still have their event lists in the order they came in.        *)
(***************************************************************************)
Count(seq, e) == Cardinality({k \in 1..Len(seq) : seq[k] = e})

SameUpToOrder(x, y) == \A e \in Events : Count(x, e) = Count(y, e)

C10_EventOrderIgnored ==
    (/\ ObserveFound
     /\ last.before.kind = "Webhook"
     /\ HookScalarsEqual
     /\ SameUpToOrder(DeclaredHook.Events, FoundHook.Events)) =>
        /\ last.upToDate
        /\ Len(last.compared) = 2
        /\ last.compared[1].Events = DeclaredHook.Events
        /\ last.compared[2].Events = FoundHook.Events
        /\ Subject.spec.Webhook.Events = DeclaredHook.Events

\* [repo:refs_changed, repo:modified] was compared with the reverse
C10_Witness ==
    /\ ObserveFound /\ last.upToDate
    /\ last.before.kind = "Webhook"
    /\ DeclaredHook.Events = <<"repo:refs_changed", "repo:modified">>
    /\ FoundHook.Events = <<"repo:modified", "repo:refs_changed">>

(***************************************************************************)
(* C11.  When the declared resource and the found one differ in nothing    *)
(* but the ID (the declared one has none, the found one has the ID the     *)
(* server assigned), Observe reports upToDate=true.                        *)
(***************************************************************************)
C11_IdentityNotCompared ==
    ObserveFound =>
        IF last.before.kind = "Webhook"
        THEN (/\ HookScalarsEqual
              /\ DeclaredHook.Events = FoundHook.Events
              /\ WebhookOf(last.before).ID # FoundHook.ID) => last.upToDate
        ELSE (/\ KeyScalarsEqual
              /\ AccessKeyOf(last.before).ID # FoundKey.ID) => last.upToDate

\* a webhook was compared with its copy on the server, which has an ID
C11_Witness ==
    /\ ObserveFound /\ last.upToDate
    /\ last.before.kind = "Webhook"
    /\ [FoundHook EXCEPT !.ID = 0] = WebhookOf(last.before)
    /\ FoundHook.ID = FirstID
    /\ last.compared[1].ID = 0 /\ last.compared[2].ID = FirstID

(***************************************************************************)
(* C12.  An Observe of an access key with a well-formed identity whose     *)
(* get succeeds returns exists=true without error; upToDate is false when  *)
(* the found permission differs from the declared one, and true when the   *)
(* found key equals the declared one in label, key and permission.         *)
(***************************************************************************)
KeyGetSucceeded ==
    /\ Ran("Observe")
    /\ last.before.kind = "AccessKey"
    /\ IsInteger(last.before.externalName)
    /\ Called(last)
    /\ last.calls[1].status = StatusOK

C12_KeyPermissionDecides ==
    KeyGetSucceeded =>
        /\ last.err = Nil /\ last.exists
        /\ DeclaredKey.Permission # FoundKey.Permission => ~last.upToDate
        /\ KeyScalarsEqual => last.upToDate

\* REPO_READ is declared and REPO_WRITE was found
C12_Witness ==
    /\ KeyGetSucceeded
    /\ DeclaredKey.Permission = PermissionRepoRead
    /\ FoundKey.Permission = PermissionRepoWrite
    /\ last.exists /\ ~last.upToDate

(***************************************************************************)
(* C13.  As claimed: an Update of a managed resource whose external name   *)
(* is absent or is no integer issues no remote call and returns no error.  *)
(***************************************************************************)
C13_UpdateWithoutIdentityIsNoOp ==
    (Ran("Update") /\ ~IsInteger(last.before.externalName)) =>
        /\ last.calls = <<>>
        /\ last.err = Nil

(***************************************************************************)
(* C14.  As claimed: after a successful Update the condition is Available, *)
(* and after a failed Update it is what it was before the call.            *)
(***************************************************************************)
C14_UpdateSetsAvailable ==
    Ran("Update") =>
        IF last.err = Nil THEN Subject.cond = "Available"
        ELSE Subject.cond = last.before.cond

\* C14, amended.  A successful Update of a webhook sets the condition to
\* Available.  A successful Update of an access key and a failed Update of
\* either kind leave the condition as it was before the call, and a failed
\* Update returns the error.
C14_UpdateCondition ==
    Ran("Update") =>
        IF last.err = Nil /\ last.before.kind = "Webhook"
        THEN Subject.cond = "Available"
        ELSE Subject.cond = last.before.cond

\* the Update of an access key succeeded while its condition was Creating
C14_Witness ==
    /\ Ran("Update") /\ last.err = Nil
    /\ last.calls[1].status = StatusOK
    /\ last.before.kind = "AccessKey"
    /\ last.before.cond = "Creating"
    /\ Subject.cond = "Creating"

(***************************************************************************)
(* C15.  As claimed: after a Delete the condition is Deleting, whether the *)
(* remote delete succeeded or failed.                                      *)
(***************************************************************************)
C15_DeleteSetsDeleting == Ran("Delete") => Subject.cond = "Deleting"

\* C15, amended.  After a Delete of a webhook the condition is Deleting
\* whether the remote delete succeeded or failed.  After a Delete of an
\* access key it is Deleting when the remote delete succeeded, and what it
\* was before the call when the remote delete failed.
C15_DeleteCondition ==
    Ran("Delete") =>
        IF last.before.kind = "Webhook" \/ last.err = Nil
        THEN Subject.cond = "Deleting"
        ELSE Subject.cond = last.before.cond

\* the Delete of an available access key failed
C15_Witness ==
    /\ Ran("Delete") /\ last.err # Nil
    /\ last.before.kind = "AccessKey"
    /\ last.before.cond = "Available"
    /\ Subject.cond = "Available"

C17_ObserveLeavesRemote ==
    /\ [](Ran("Observe") =>
            /\ Len(last.calls) <= 1
            /\ \A k \in 1..Len(last.calls) :
                   last.calls[k].method \in {"GetAccessKey", "GetWebhook"})
    /\ [][(remote' # remote \/ nextID' # nextID) =>
              ~\E i \in DOMAIN cr : Observe(i)]_vars

\* Observe found a webhook that is not up to date, and the server still has
\* the webhook as it was when it was created
C17_Witness ==
    /\ ObserveFound /\ ~last.upToDate
    /\ last.before.kind = "Webhook"
    /\ FoundHook # Absent
    /\ FoundHook.URL # Subject.spec.Webhook.URL
    /\ prev.op = "Create"

(***************************************************************************)
(* C18.  An Observe of a managed resource whose external name is present   *)
(* but is no integer returns exists=false and no error and issues no       *)
(* remote call; a Create that succeeds next replaces the name by the       *)
(* decimal rendering of the new resource's ID.                             *)
(***************************************************************************)
ObservedMalformed ==
    /\ Ran("Observe")
    /\ last.before.externalName # <<>>
    /\ ~IsInteger(last.before.externalName)

C18_MalformedIdentityIsAbsent ==
    /\ [](ObservedMalformed =>
            /\ ~last.exists /\ last.err = Nil
            /\ last.calls = <<>>)
    /\ [][(ObservedMalformed /\ last'.op = "Create" /\ last'.err = Nil) =>
            /\ last'.before.externalName = last.before.externalName
            /\ IsDecimalOf(cr'[last'.inst].externalName,
                           last'.calls[1].ret)]_vars

\* the Create after an Observe of the name "ex" put a number in its place
C18_Witness ==
    /\ CreateSucceeded
    /\ prev.op = "Observe" /\ ~prev.called /\ ~prev.failed
    /\ last.before.externalName = <<"e", "x">>
    /\ last.before.kind = "Webhook"
    /\ IsInteger(Subject.externalName)

(***************************************************************************)
(* C19.  An Observe that changes anything of the managed resource          *)
(* (external name, condition, status or declared fields) is one that       *)
(* returned exists=true and no error: an Observe returning exists=false or *)
(* an error leaves the managed resource as it was.                         *)
(***************************************************************************)
C19_FruitlessObserveChangesNothing ==
    [][\A i \in DOMAIN cr :
          (cr' # cr /\ Observe(i)) =>
              (last'.exists /\ last'.err = Nil)]_vars

\* the get of an access key whose condition is Creating failed
C19_Witness ==
    /\ Ran("Observe") /\ last.err # Nil
    /\ last.before.kind = "AccessKey"
    /\ last.before.cond = "Creating"
    /\ Subject = last.before

(***************************************************************************)
(* C20.  A Create whose generator failed returns that error, has issued no *)
(* remote call, reports no assigned name and no connection details, and    *)
(* leaves the external name as it was.                                     *)
(***************************************************************************)
GeneratorErrors == {"rand: read failed", "rsa: generate failed"}

GeneratorFailed ==
    /\ Ran("Create")
    /\ last.err # Nil
    /\ last.err[Len(last.err)] \in GeneratorErrors

C20_GeneratorFailureAborts ==
    GeneratorFailed =>
        /\ last.gens = 1
        /\ last.calls = <<>>
        /\ ~last.nameAssigned
        /\ last.conn = NoDetails
        /\ Subject.externalName = last.before.externalName

\* pwgen failed in the Create of a webhook without a declared secret
C20_Witness ==
    /\ GeneratorFailed
    /\ last.before.kind = "Webhook"
    /\ last.before.spec.Webhook.Configuration.Secret = ""
    /\ Subject.cond = "Creating"

(***************************************************************************)
(* C21.  When Create returns with an error, be it the generator's or the   *)
(* remote create's, the condition is Creating, whatever it was before the  *)
(* call; when Create returns without error the condition is Available.     *)
(***************************************************************************)
C21_CreateCondition ==
    Ran("Create") =>
        IF last.err = Nil THEN Subject.cond = "Available"
        ELSE Subject.cond = "Creating"

\* the remote create of an access key that was Available failed
C21_Witness ==
    /\ Ran("Create") /\ last.err # Nil /\ Called(last)
    /\ last.before.kind = "AccessKey"
    /\ last.before.cond = "Available"
    /\ Subject.cond = "Creating"

(***************************************************************************)
(* C22.  One call of Observe, Create, Update or Delete issues at most one  *)
(* remote call, and that one is the get, create, update or delete of its   *)
(* kind of resource; a remote call that failed is not issued again.        *)
(***************************************************************************)
RemoteMethod(op, kind) ==
    IF kind = "AccessKey"
    THEN CASE op = "Observe" -> "GetAccessKey"
           [] op = "Create"  -> "CreateAccessKey"
           [] op = "Update"  -> "UpdateAccessKeyPermission"
           [] OTHER          -> "DeleteAccessKey"
    ELSE CASE op = "Observe" -> "GetWebhook"
           [] op = "Create"  -> "CreateWebhook"
           [] op = "Update"  -> "UpdateWebhook"
           [] OTHER          -> "DeleteWebhook"

C22_OneRemoteCall ==
    last.op \in {"Observe", "Create", "Update", "Delete"} =>
        /\ Len(last.calls) <= 1
        /\ \A k \in 1..Len(last.calls) :
               last.calls[k].method = RemoteMethod(last.op, last.before.kind)

\* the remote update of an access key failed and was issued once
C22_Witness ==
    /\ Ran("Update") /\ last.err # Nil
    /\ last.before.kind = "AccessKey"
    /\ Len(last.calls) = 1
    /\ last.calls[1].status = StatusInternalServerError

(***************************************************************************)
(* C23.  The generator is invoked only in Create, at most once per call,   *)
(* and exactly when the declared secret or public key is empty when the    *)
(* call begins; Observe, Update and Delete never invoke it.                *)
(***************************************************************************)
DeclaredEmpty(c) ==
    IF c.kind = "Webhook" THEN c.spec.Webhook.Configuration.Secret = ""
    ELSE c.spec.PublicKey.Key = ""

C23_GeneratorOnlyInCreate ==
    /\ last.op \in {"Observe", "Update", "Delete"} => last.gens = 0
    /\ Ran("Create") =>
           last.gens = IF DeclaredEmpty(last.before) THEN 1 ELSE 0

\* C23 as claimed: in addition, over the life of a managed resource the
\* material is generated once: after a Create in which the generator gave
\* material, no Create invokes the generator again.
C23_GeneratedOnce ==
    /\ []C23_GeneratorOnlyInCreate
    /\ [][~(/\ Ran("Create") /\ last.gens = 1 /\ ~GeneratorFailed
            /\ last'.op = "Create" /\ last'.gens = 1
            /\ \E i \in DOMAIN cr : Create(i))]_vars

\* the remote create of a webhook without a declared secret failed, and the
\* next Create generated a secret again
C23_Witness ==
    /\ CreateSucceeded /\ last.gens = 1
    /\ last.before.kind = "Webhook"
    /\ prev.op = "Create" /\ prev.failed /\ prev.called

(***************************************************************************)
(* C24.  As claimed: under the host loop, where nothing but the reconciler *)
(* writes the managed resource, a Create that returned an error has left   *)
(* the declared fields and the external name as they were before the call. *)
(***************************************************************************)
C24_FailedCreateLeavesSpecification ==
    (Ran("Create") /\ last.err # Nil) =>
        /\ Subject.spec = last.before.spec
        /\ Subject.externalName = last.before.externalName

Reconcile(i) == Observe(i) \/ Create(i) \/ Update(i) \/ Delete(i)

Names(j) == cr[j].externalName

C28_CreateKeepsDeclaredSecret ==
    (Ran("Create") /\ last.before.kind = "Webhook") =>
        /\ Subject = [last.before EXCEPT
                        !.externalName = Subject.externalName,
                        !.cond = Subject.cond]
        /\ (DeclaredEmpty(last.before) /\ last.err = Nil) =>
               /\ DeclaredEmpty(Subject)
               /\ last.calls[1].body.Configuration.Secret # ""
               /\ last.conn["secret"] =
                      last.calls[1].body.Configuration.Secret

\* a webhook with no declared secret was created with a generated one
C28_Witness ==
    /\ CreateSucceeded
    /\ last.before.kind = "Webhook"
    /\ DeclaredEmpty(last.before) /\ DeclaredEmpty(Subject)
    /\ last.gens = 1
    /\ remote["Webhook"][DecimalValue(Subject.externalName)]
           .Configuration.Secret # ""

(***************************************************************************)
(* C29: the event lists of the declared webhook and of the webhook found   *)
(* are compared as lists sorted, repetitions kept: a webhook found is      *)
(* reported up to date exactly when name, secret and URL are equal and     *)
(* every event occurs as many times in one list as in the other.           *)
(***************************************************************************)
Distinct(seq) == {seq[k] : k \in 1..Len(seq)}

C29_EventsComparedWithRepetitions ==
    (ObserveFound /\ last.before.kind = "Webhook") =>
        (last.upToDate <=>
            /\ HookScalarsEqual
            /\ SameUpToOrder(DeclaredHook.Events, FoundHook.Events))

\* C29 as claimed: lists with the same distinct events are reported up to
\* date, however often an event is repeated in either
C29_EventsComparedAsSets ==
    (/\ ObserveFound
     /\ last.before.kind = "Webhook"
     /\ HookScalarsEqual
     /\ Distinct(DeclaredHook.Events) = Distinct(FoundHook.Events)) =>
        last.upToDate

\* an event declared twice and found once
C29_Witness ==
    /\ ObserveFound /\ ~last.upToDate
    /\ last.before.kind = "Webhook"
    /\ HookScalarsEqual
    /\ DeclaredHook.Events = <<"repo:modified", "repo:modified">>
    /\ FoundHook.Events = <<"repo:modified">>

(***************************************************************************)
(* C30: the client turns an answer with status 404 into ErrNotFound and    *)
(* every other answer with a status below 200 or from 400 on into an error *)
(* that is not ErrNotFound, and errors.Is tells the two apart through the  *)
(* wrapping of the get operations; so an Observe whose call was answered   *)
(* reports "absent, no error" exactly for 404, and for any other failure   *)
(* returns an error that is not ErrNotFound.                               *)
(***************************************************************************)
AnswerStatuses == {100, 199, 200, 204, 399, 400, 401, 403, 404, 409, 500, 503}

Refused(s) == s < StatusOK \/ s >= StatusBadRequest

C30_NotFoundDistinguished ==
    /\ \A s \in AnswerStatuses : \A op \in {"GetAccessKey", "GetWebhook"} :
           /\ Refused(s) => SendRequest(s) # Nil
           /\ (SendRequest(s) = ErrNotFound) <=> (s = StatusNotFound)
           /\ Refused(s) =>
                  (ErrorsIs(Wrap(SendRequest(s), op), ErrNotFound)
                       <=> (s = StatusNotFound))
    /\ (Ran("Observe") /\ Called(last)) =>
           /\ (last.err = Nil /\ ~last.exists)
                  <=> (last.calls[1].status = StatusNotFound)
           /\ (last.calls[1].status # StatusNotFound
                   /\ Refused(last.calls[1].status)) =>
                  (last.err # Nil /\ ~ErrorsIs(last.err, ErrNotFound))

\* the get of an existing resource was answered 500
C30_Witness ==
    /\ Ran("Observe") /\ Called(last)
    /\ last.calls[1].status = StatusInternalServerError
    /\ Present(remote[last.before.kind], last.calls[1].id)
    /\ last.err # Nil /\ ~ErrorsIs(last.err, ErrNotFound)
    /\ ErrorsIs(last.err, <<"HTTP status 500">>)

(***************************************************************************)
(* C31: when ssh-keygen has read back the private key keygen returned, the *)
(* public key line it derives is the public key keygen returned, white     *)
(* space at either end apart.                                              *)
(***************************************************************************)
C31_PublicKeyRoundTrip ==
    last.op = "ssh-keygen" =>
        /\ last.err = Nil
        /\ TrimSpace(last.derived) = TrimSpace(last.public)

C31_Witness ==
    /\ last.op = "ssh-keygen"
    /\ last.err = Nil
    /\ Len(TrimSpace(last.public)) = 3
    /\ TrimSpace(last.public)[3] = Base64(<<KeyAlgoRSA, PublicExponent, 15>>)
    /\ TrimSpace(last.derived) # last.derived

(***************************************************************************)
(* C32.  As claimed: the private key keygen returns is one PEM block of    *)
(* type OPENSSH PRIVATE KEY with nothing after it, and the public key line *)
(* begins with the algorithm ssh-ed25519.                                  *)
(***************************************************************************)
C32_OpenSSHEd25519 ==
    (last.op = "keygen" /\ last.err = Nil) =>
        /\ ContainsHeader(last.private, "OPENSSH PRIVATE KEY")
        /\ PemDecode(last.private).found
        /\ PemDecode(last.private).rest = <<>>
        /\ PemDecode(last.private).block.Type = "OPENSSH PRIVATE KEY"
        /\ HasPrefix(last.public, KeyAlgoED25519)

(***************************************************************************)
(* C33: under the host loop, a create whose answer is lost has taken       *)
(* effect on the server while Create returned an error and assigned no     *)
(* name; and every Create whose request the server carried out adds one    *)
(* resource under a fresh ID, whatever the server already holds.  So the   *)
(* retry after a lost answer leaves two resources made from one managed    *)
(* resource (the witness).                                                 *)
(***************************************************************************)
IDsIn(store) == {id \in DOMAIN store : store[id] # Absent}

CreateReachedServer(res) ==
    /\ res.op = "Create" /\ Called(res)
    /\ res.calls[1].status \in {StatusOK, NoStatus}

RemoteSecret(store, name) ==
    store[DecimalValue(name)].Configuration.Secret

C34_GeneratedSecretStays ==
    /\ []((/\ CreateSucceeded
           /\ last.before.kind = "Webhook"
           /\ DeclaredEmpty(last.before))
          => /\ last.conn["secret"] # ""
             /\ RemoteSecret(remote["Webhook"], Subject.externalName)
                    = last.conn["secret"])
    /\ [][\A i \in DOMAIN cr :
            (/\ cr[i].kind = "Webhook" /\ DeclaredEmpty(cr[i])
             /\ last'.op \in {"Observe", "Update"}
             /\ IsInteger(cr[i].externalName)
             /\ DecimalValue(cr[i].externalName) \in IDsIn(remote["Webhook"])
             /\ DecimalValue(cr[i].externalName) \in IDsIn(remote'["Webhook"]))
            => RemoteSecret(remote'["Webhook"], cr[i].externalName)
                   = RemoteSecret(remote["Webhook"], cr[i].externalName)]_vars

(***************************************************************************)
(* C35.  As claimed: under the host loop, where the server's resource is   *)
(* what Create sent, an Observe that follows a successful Create and whose *)
(* get succeeds reports exists=true and upToDate=true.                     *)
(***************************************************************************)
ObserveAfterCreate ==
    /\ Ran("Observe")
    /\ prev.op = "Create" /\ ~prev.failed
    /\ Called(last) /\ last.calls[1].status = StatusOK

C35_ObserveAfterCreateUpToDate ==
    ObserveAfterCreate => (last.exists /\ last.upToDate)

(***************************************************************************)
(* C36: when a successful Update of a managed resource is followed by an   *)
(* Observe of the same, unchanged managed resource whose get succeeds, the *)
(* Observe reports exists=true and upToDate=true; and when it is followed  *)
(* by another Update of the same, unchanged managed resource, that Update  *)
(* leaves the server's resources as they are.                              *)
(***************************************************************************)
UpdateSucceeded == Ran("Update") /\ last.err = Nil

SameDeclared(res) ==
    /\ res.inst = last.inst
    /\ res.before.spec = last.before.spec
    /\ res.before.externalName = last.before.externalName

C36_UpdateIdempotent ==
    /\ [][(/\ UpdateSucceeded
           /\ last'.op = "Observe"
           /\ SameDeclared(last')
           /\ Called(last') /\ last'.calls[1].status = StatusOK)
          => (last'.exists /\ last'.upToDate)]_vars
    /\ [][(/\ UpdateSucceeded
           /\ remote' # remote
           /\ last'.op = "Update"
           /\ SameDeclared(last'))
          => ~\E i \in DOMAIN cr : Update(i)]_vars

\* a webhook moved to another URL was updated twice in a row, both times
\* with success, and the server holds the declared webhook
C36_Witness ==
    /\ UpdateSucceeded
    /\ prev.op = "Update" /\ ~prev.failed /\ prev.called
    /\ last.before.kind = "Webhook"
    /\ last.before.cond = "Available"
    /\ DeclaredHook.URL = "https://hooks.example.com/2"
    /\ remote["Webhook"][last.calls[1].id] =
           [WebhookOf(last.before) EXCEPT !.ID = last.calls[1].id]

(***************************************************************************)
(* C37.  As claimed: under the host loop, whenever a Create uploads a      *)
(* generated public key with success, its connection details hold the      *)
(* private key generated with that public key.                             *)
(***************************************************************************)
C37_PrivateKeyReturned ==
    \A g \in KeygenResults :
        (/\ CreateSucceeded
         /\ last.before.kind = "AccessKey"
         /\ g.err = Nil
         /\ last.calls[1].body.Key = g.public)
        => last.conn = ("ssh-privatekey" :> g.private)

(***************************************************************************)
(* C38.  As claimed: an Update or a Delete of a managed resource whose     *)
(* external name is absent or is no integer issues no remote call.         *)
(***************************************************************************)
C38_NoCallWithoutIdentity ==
    (/\ last.op \in {"Update", "Delete"}
     /\ ~IsInteger(last.before.externalName))
    => ~Called(last)

(***************************************************************************)
(* C39: every result of Observe satisfies: upToDate implies exists; exists *)
(* implies that this call issued one get, addressed with the ID the        *)
(* external name renders, which was answered with success; and an error    *)
(* implies neither exists nor upToDate.                                    *)
(***************************************************************************)
C39_ObservationConsistent ==
    Ran("Observe") =>
        /\ last.upToDate => last.exists
        /\ last.exists =>
               /\ last.err = Nil
               /\ Len(last.calls) = 1
               /\ last.calls[1].method =
                      (IF last.before.kind = "AccessKey" THEN "GetAccessKey"
                       ELSE "GetWebhook")
               /\ last.calls[1].status = StatusOK
               /\ IsDecimalOf(last.before.externalName, last.calls[1].id)
        /\ last.err # Nil => (~last.exists /\ ~last.upToDate)

\* a webhook was found and differs from the declared one
C39_Witness ==
    /\ Ran("Observe")
    /\ last.before.kind = "Webhook"
    /\ last.exists /\ ~last.upToDate /\ last.err = Nil
    /\ last.calls[1].status = StatusOK
    /\ last.calls[1].id \in IDsIn(remote["Webhook"])
    /\ FoundHook.URL # DeclaredHook.URL

(***************************************************************************)
(* C40: under the host loop of a deletion, from some point on the host is  *)
(* done: the latest call is an Observe that reported exists=false without  *)
(* an error, and the server holds no resource under the ID the external    *)
(* name renders; this also when the resource was removed by somebody else  *)
(* between an Observe and the Delete.                                      *)
(***************************************************************************)
Gone ==
    \A i \in DOMAIN cr :
        IsInteger(cr[i].externalName)
            => DecimalValue(cr[i].externalName)
                   \notin IDsIn(remote[cr[i].kind])

C40_DeletionCompletes ==
    <>[](/\ host.pc = "done"
         /\ Ran("Observe") /\ ~last.exists /\ last.err = Nil
         /\ Gone)

\* the Delete found the resource removed by somebody else
C40_Witness ==
    /\ Ran("Delete") /\ Called(last)
    /\ last.calls[1].status = StatusNotFound
    /\ last.err # Nil
    /\ host.pc = "observe" /\ host.fails = 0
    /\ IsInteger(Subject.externalName)
    /\ Gone
====
